---- MODULE Spec2Model ----
(***************************************************************************)
(* A model of netless-app-pdfjs: the byte-range transport (prepare,        *)
(* rangeRequest, the PDFDataRangeTransport callbacks), the PDFViewer's     *)
(* construction, render lane, navigation and error callbacks               *)
(* (src/src/pdf-viewer.ts), and the collaborative app built on it          *)
(* (src/unnamed/part_004).                                                 *)
(*                                                                         *)
(* The specifications of the module:                                       *)
(*   SpecRange    - rangeRequest / requestDataRange / transport.abort      *)
(*   SpecOpen     - the constructor's continuation: library, URL hook,     *)
(*                  probe, getDocument, and disposal                       *)
(*   Spec         - the ready PDFViewer, render lane included              *)
(*   SpecRethrows - Spec with a lane whose add() settles as its function   *)
(*   SpecReady    - the PDFViewer from a loading document on               *)
(*   SpecSettle   - SpecReady with an engine that settles its promises     *)
(*   SpecNav      - the listeners of the viewer, plain and collaborative   *)
(*   SpecPage     - the shared page index of the collaborative app         *)
(*   SpecView     - the shared viewport of the collaborative app           *)
(***************************************************************************)
EXTENDS Integers, Sequences, FiniteSets, TLC

(***************************************************************************)
(* Bounds of the model.                                                    *)
(***************************************************************************)
\* number of requestDataRange calls the engine issues
MaxReq == 2
\* number of render() calls in one run
MaxCalls == 2
\* largest page count of a document
MaxPages == 2
\* number of rectangles a camera can show
MaxCamera == 2

(***************************************************************************)
(* Program constants.                                                      *)
(***************************************************************************)
\* pdf-viewer.ts:80   const MaxRetryCount = 3
MaxRetryCount == 3
\* pdf-viewer.ts:185  length < 10485760
WholeFileLimit == 10485760
\* pdf-viewer.ts:199  rangeChunkSize: 16384
RangeChunkSize == 16384

VARIABLES
  \* ---- range transport (SpecRange) ----
  signalAborted,    \* controller.signal.aborted (pdf-viewer.ts:188,196)
  req,              \* the rangeRequest calls, by request number
  rangeLength,      \* the `length` the transport was constructed with
  dataRanges,       \* requests whose bytes were handed to onDataRange
  progressiveDone,  \* onDataProgressiveDone() has been called
  \* ---- environment of one viewer ----
  server,           \* the response the file server gives to the HEAD request
  hasInterrupter,   \* options.urlInterrupter is set
  hookCalls,        \* how often options.urlInterrupter was called
  sourceUrl,        \* sourceUrl of the constructor's continuation (line 172)
  fetched,          \* the fetches asked for so far, and the URL of each
  seqRethrows,      \* how @wopjs/async-seq settles the promise of add()
  \* ---- PDFViewer (pdf-viewer.ts:122-547) ----
  ctor,             \* position of the continuation of lines 171-202
  destroyed,        \* this.destroyed
  disposed,         \* this.dispose() has run
  disposeLog,       \* what the disposer of lines 205-213 did, in order
  getDocumentTask,  \* this.getDocumentTask: "null", "whole" or "range"
  docSource,        \* the argument getDocument() was called with
  loadTask,         \* the engine's loading task and its promise
  pdf,              \* this.pdf: 0 for null, else pdf.numPages
  ready,            \* the ready promise has been resolved
  pageIndex,        \* this.pageIndex
  calls,            \* the render() calls, by submission number
  ncalls,           \* number of render() calls so far
  task,             \* the engine's RenderTask of each call
  fns,              \* the lane's queue (this.rendering)
  running,          \* the call the lane is executing, 0 when idle
  lastRenderingTask,\* this.lastRenderingTask: 0 for null, else its call
  painted,          \* what each canvas shows, and the render() call that drew it
  reported,         \* what options.onRenderError was called with
  showPreview,      \* this.showPreview
  previewLazyLoad,  \* this.previewLazyLoad
  previewPages,     \* thumbnails makePreview has appended so far
  touched,          \* this.touched
  touchCalls,       \* how often the loader called touch for each thumbnail
  \* ---- navigation and the collaborative app (unnamed/part_004) ----
  readonly,         \* this.readonly
  box,              \* this.box: "none" for a plain PDFViewer, else its focus
  writable,         \* context.getIsWritable()
  pageState,        \* page$$.state.index, the shared page index
  pageNotify,       \* a change of page$$ its listeners have not yet seen
  lastEvent,        \* the last DOM event a listener of the viewer was given
  warned,           \* what the last listener wrote with console.warn
  \* ---- setup() of the collaborative app (unnamed/part_004:98-312) ----
  isAddApp,         \* context.isAddApp
  scenes,           \* the whiteboard scenes at scenePath
  lastIndex,        \* lastIndex of syncPage (part_004:125)
  pageEvents,       \* the last two pageStateChange events dispatched
  scenePath,        \* the scene the whiteboard shows (setScenePath, line 146)
  syncing,          \* the syncPage calls suspended at await addPage (line 142)
  mounted,          \* setup() has run to its end
  sized,            \* app.size() is not 0 x 0
  camera,           \* view.camera, by the rectangle it shows
  throttleSyncView, \* throttleSyncView: 0 or the id of a timer
  timers,           \* the setTimeout callbacks of syncView not yet run
  viewState,        \* view$$.state: its uid and its rectangle
  disableCameraTransform, \* view.disableCameraTransform
  viewNotify,       \* a change of view$$ its listener has not yet seen
  throttleSyncPDF,  \* throttleSyncPDF: 0 or the id of an animation frame
  frames,           \* the requestAnimationFrame callbacks not yet run
  transform         \* the camera the transform of the canvas was made for

rangeVars == <<signalAborted, req, rangeLength, dataRanges, progressiveDone>>

urlVars == <<hookCalls, sourceUrl, fetched>>

envVars == <<server, hasInterrupter, seqRethrows, urlVars>>

loadVars == <<ctor, destroyed, disposed, disposeLog, getDocumentTask, docSource, loadTask,
              pdf, ready>>

laneVars == <<calls, ncalls, task, fns, running, lastRenderingTask, painted>>

previewVars == <<showPreview, previewLazyLoad, previewPages, touched,
                 touchCalls>>

pathVars == <<scenePath, syncing>>

pageVars == <<isAddApp, scenes, lastIndex, pageEvents, pathVars>>

frameVars == <<throttleSyncPDF, frames, transform>>

viewVars == <<mounted, sized, camera, throttleSyncView, timers, viewState,
              disableCameraTransform, viewNotify, frameVars>>

navVars == <<readonly, box, writable, pageState, pageNotify, lastEvent,
             warned, pageVars, viewVars>>

viewerVars == <<envVars, navVars, loadVars, pageIndex, laneVars, reported,
                previewVars>>

vars == <<rangeVars, viewerVars>>

(***************************************************************************)
(* Errors.  An error is a record [name, message]; '' + reason is its name, *)
(* a colon and its message (Error.prototype.toString).                     *)
(***************************************************************************)
NoError == [name |-> "", message |-> ""]

\* pdf-viewer.ts:196  new Error('RenderingCancelledException')
AbortReason == [name |-> "Error", message |-> "RenderingCancelledException"]

\* fetch() rejecting on a network failure
NetworkError == [name |-> "TypeError", message |-> "Failed to fetch"]

\* pdf-viewer.ts:88  new Error(await resp.text()): the message is the body
HttpError(body) == [name |-> "Error", message |-> body]

\* '' + reason
ReasonText(reason) == <<reason.name, ": ", reason.message>>

\* text.includes(word), on a text made of words
Includes(text, word) == \E k \in 1..Len(text) : text[k] = word

\* the texts a response body can be
Bodies == {"body1", "body2"}

(***************************************************************************)
(* rangeRequest (pdf-viewer.ts:79-96).  A call is at one of its awaits:    *)
(*   "fetch"        await fetch(src, { signal, headers })        line 84   *)
(*   "arrayBuffer"  await resp.arrayBuffer()                     line 86   *)
(*   "text"         await resp.text()                            line 88   *)
(* or has returned ("done") or thrown ("failed").                          *)
(***************************************************************************)
IdleReq == [st |-> "idle", retry |-> 0, attempts |-> 0, fails |-> 0,
            body |-> "", end |-> 0, lastError |-> NoError,
            result |-> "", err |-> NoError]

Pending == {"fetch", "arrayBuffer", "text"}
Final   == {"done", "failed"}

\* line 84: the fetch is given the controller's signal, so an aborted signal
\* rejects the fetch and the reads of its body with signal.reason
SignalStopsNoSignal(aborted) == FALSE
SignalStops(aborted) == aborted

\* line 83: for (let retry = 0; retry <= MaxRetryCount; retry++)
RetryAgainStrict(retry) == retry < MaxRetryCount
RetryAgain(retry) == retry <= MaxRetryCount

\* line 86: return new Uint8Array(await resp.arrayBuffer())
ResultBytesStale(r) == r.lastError.message
ResultBytes(r) == r.body

\* rangeRequest returning or throwing: its locals (retry, lastError, and
\* the caller's end) are gone, what stays is what the caller sees and the
\* counts of what went over the network
Returned(r, bytes) ==
  [IdleReq EXCEPT !.st = "done", !.attempts = r.attempts, !.fails = r.fails,
                  !.body = r.body, !.result = bytes]
Thrown(r, error) ==
  [IdleReq EXCEPT !.st = "failed", !.attempts = r.attempts, !.fails = r.fails,
                  !.body = r.body, !.err = error]

\* transport.requestDataRange(begin, end) (lines 190-191) entering
\* rangeRequest and reaching its first fetch (line 84)
RequestDataRange(i, end) ==
  /\ req[i].st = "idle"
  /\ \A j \in 1..(i-1) : req[j].st # "idle"
  /\ IF SignalStops(signalAborted)
       THEN req' = [req EXCEPT ![i] = Thrown(req[i], AbortReason)]
       ELSE req' = [req EXCEPT ![i] = [@ EXCEPT !.st = "fetch", !.end = end,
                                                !.attempts = 1]]
  /\ UNCHANGED <<viewerVars, signalAborted, rangeLength, dataRanges, progressiveDone>>

\* the fetch of line 84 resolves with a response, ok or not
FetchResponds(i, ok, b) ==
  /\ req[i].st = "fetch"
  /\ ~SignalStops(signalAborted)
  /\ req' = [req EXCEPT ![i] = [@ EXCEPT
               !.st = IF ok THEN "arrayBuffer" ELSE "text",
               !.body = b,
               !.fails = IF ok THEN @ ELSE @ + 1]]
  /\ UNCHANGED <<viewerVars, signalAborted, rangeLength, dataRanges, progressiveDone>>

\* an await of rangeRequest rejects on a network failure: nothing catches
\* it, the call throws
AwaitRejects(i) ==
  /\ req[i].st \in Pending
  /\ ~SignalStops(signalAborted)
  /\ req' = [req EXCEPT ![i] = Thrown([req[i] EXCEPT !.body = ""], NetworkError)]
  /\ UNCHANGED <<viewerVars, signalAborted, rangeLength, dataRanges, progressiveDone>>

\* line 86 returns; requestDataRange goes on (lines 192-193)
ArrayBufferResolves(i) ==
  /\ req[i].st = "arrayBuffer"
  /\ ~SignalStops(signalAborted)
  /\ req' = [req EXCEPT ![i] = Returned(req[i], ResultBytes(req[i]))]
  /\ dataRanges' = dataRanges \cup {i}
  /\ progressiveDone' = (progressiveDone \/ req[i].end = rangeLength)
  /\ UNCHANGED <<viewerVars, signalAborted, rangeLength>>

\* lines 88-93, then line 84 of the next iteration or line 95
TextResolves(i) ==
  /\ req[i].st = "text"
  /\ ~SignalStops(signalAborted)
  /\ LET r == req[i]
         lastError == HttpError(r.body)
     IN req' = [req EXCEPT ![i] =
          IF RetryAgain(r.retry + 1)
            THEN [r EXCEPT !.lastError = lastError, !.retry = r.retry + 1,
                           !.attempts = r.attempts + 1, !.st = "fetch"]
            ELSE Thrown(r, lastError)]
  /\ UNCHANGED <<viewerVars, signalAborted, rangeLength, dataRanges, progressiveDone>>

\* the pending await of an aborted call rejects with signal.reason
AbortRejects(i) ==
  /\ req[i].st \in Pending
  /\ SignalStops(signalAborted)
  /\ req' = [req EXCEPT ![i] = Thrown([req[i] EXCEPT !.body = ""], AbortReason)]
  /\ UNCHANGED <<viewerVars, signalAborted, rangeLength, dataRanges, progressiveDone>>

\* transport.abort() (lines 195-197)
TransportAbort ==
  /\ ~signalAborted
  /\ signalAborted' = TRUE
  /\ UNCHANGED <<viewerVars, req, rangeLength, dataRanges, progressiveDone>>

(***************************************************************************)
(* prepare (pdf-viewer.ts:68-77).  A header value is a sequence of         *)
(* characters: the digits 0..9 and NonDigit for any other character; an    *)
(* absent header (headers.get() returning null) is the empty sequence.     *)
(***************************************************************************)
NonDigit == 0 - 1
NaN == 0 - 1

RECURSIVE DigitsValue(_, _)
\* the value of the digits s[1..n]
DigitsValue(s, n) == IF n = 0 THEN 0 ELSE 10 * DigitsValue(s, n - 1) + s[n]

\* number of leading digits of s
LeadingDigits(s) ==
  IF \E k \in 1..Len(s) : s[k] = NonDigit
    THEN (CHOOSE k \in 1..Len(s) :
            s[k] = NonDigit /\ \A j \in 1..(k-1) : s[j] # NonDigit) - 1
    ELSE Len(s)

\* Number.parseInt(s) on an unsigned text: the leading digits, NaN if none
ParseInt(s) ==
  IF LeadingDigits(s) = 0 THEN NaN ELSE DigitsValue(s, LeadingDigits(s))

\* line 71: Number.parseInt(resp.headers.get('content-length') || '0') || 0
ContentLength(header) ==
  LET text == IF header = <<>> THEN <<0>> ELSE header
      n == ParseInt(text)
  IN IF n = NaN \/ n = 0 THEN 0 ELSE n

\* lines 70-76
PrepareIgnoresOk(resp) ==
  [length |-> ContentLength(resp.contentLength),
   supportsRange |-> resp.acceptRanges = "bytes"]
Prepare(resp) ==
  IF resp.ok
    THEN [length |-> ContentLength(resp.contentLength),
          supportsRange |-> resp.acceptRanges = "bytes"]
    ELSE [length |-> 0, supportsRange |-> FALSE]

\* line 185: if (length < 10485760 || !supportsRange)
WholeFileAtLimit(length, supportsRange) ==
  length <= WholeFileLimit \/ ~supportsRange
WholeFile(length, supportsRange) ==
  length < WholeFileLimit \/ ~supportsRange

\* what getDocument is called with: line 186, or line 199
NoSource == [kind |-> "none", length |-> 0, rangeChunkSize |-> 0]
UrlSource == [kind |-> "url", length |-> 0, rangeChunkSize |-> 0]
RangeSource(length) ==
  [kind |-> "range", length |-> length, rangeChunkSize |-> RangeChunkSize]

\* the responses to the HEAD request
ContentLengths ==
  { <<>>, <<NonDigit>>, <<9,4,3,7,1,8,4>>, <<1,0,4,8,5,7,5,9>>,
    <<1,0,4,8,5,7,6,0>>, <<5,2,4,2,8,8,0,0>>, <<5,2,4,2,8,8,0,0,NonDigit>> }
ProbeResponses ==
  [ok : BOOLEAN, contentLength : ContentLengths,
   acceptRanges : {"bytes", "none", ""}]

(***************************************************************************)
(* Numbers that need not be integers: a number is kept as its double      *)
(* (halves), so that 1.5 is 3 halves, or is NaN.                           *)
(***************************************************************************)
Dot == 0 - 2

Num(h) == [nan |-> FALSE, halves |-> h]
NaNNum == [nan |-> TRUE, halves |-> 0]

\* Number(text) for a text of digits, of digits followed by '.5', or of
\* anything else; Number('') is 0
ToNumber(s) ==
  IF \A k \in 1..Len(s) : s[k] \in 0..9
    THEN Num(2 * DigitsValue(s, Len(s)))
    ELSE IF /\ Len(s) >= 3 /\ s[Len(s) - 1] = Dot /\ s[Len(s)] = 5
            /\ \A k \in 1..(Len(s) - 2) : s[k] \in 0..9
      THEN Num(2 * DigitsValue(s, Len(s) - 2) + 1)
      ELSE NaNNum

\* x - 1
Minus1(x) == IF x.nan THEN NaNNum ELSE Num(x.halves - 2)

\* Number.isSafeInteger(x)
IsSafeInteger(x) == ~x.nan /\ x.halves % 2 = 0

NoEvent == [type |-> "none", key |-> "", tagName |-> "", value |-> <<>>]

(***************************************************************************)
(* The state setup() of the collaborative app keeps (unnamed/part_004).    *)
(***************************************************************************)
\* part_004 line 125: let lastIndex = -1
NoIndex == Num(0 - 2)

\* entireScenes()[scenePath]: undefined when dir is FALSE, else the scenes,
\* each by the number its name spells
NoScenes == [dir |-> FALSE, names |-> {}]

\* the whiteboard shows no scene of the document: the name of no page
NoPath == Num(0)

\* the scene a whiteboard shows before any call of setScenePath: the one of
\* the first page (line 137, String(0 + 1)) when the scenes sc have it
FirstScene(sc) == IF Num(2) \in sc.names THEN Num(2) ELSE NoPath

\* part_004 line 123: { uid: "", originX: 0, originY: 0, width: 0, height: 0 };
\* a rectangle is a number, 0 for one of no width and no height
DefaultView == [uid |-> "", rect |-> 0]

\* part_004 line 199: the uid of this peer, and the uid of another peer
Me == "me"
Peer == "peer"

\* the camera moveCameraToContain gives for the page itself (part_004
\* lines 183-186): a camera is named by the rectangle it shows, and the
\* page is rectangle 1
DocCamera == 1

\* part_004 line 234: let throttleSyncPDF = 0; the canvas has no transform
NoTransform == 0

NoFrame ==
  /\ throttleSyncPDF = 0
  /\ frames = <<>>
  /\ transform = NoTransform

\* a plain PDFViewer: setup() never ran
NoApp ==
  /\ warned = ""
  /\ isAddApp = FALSE
  /\ scenes = NoScenes
  /\ lastIndex = NoIndex
  /\ pageEvents = <<>>
  /\ scenePath = NoPath
  /\ syncing = <<>>
  /\ mounted = FALSE
  /\ sized = FALSE
  /\ camera = DocCamera
  /\ throttleSyncView = 0
  /\ timers = <<>>
  /\ viewState = DefaultView
  /\ disableCameraTransform = FALSE
  /\ viewNotify = FALSE
  /\ NoFrame

(***************************************************************************)
(* Reasons of failure.                                                     *)
(***************************************************************************)
\* the import of line 49 failing
LibError == [name |-> "TypeError", message |-> "Failed to fetch dynamically imported module"]
\* the engine failing to produce a document
LoadError == [name |-> "InvalidPDFException", message |-> "Invalid PDF structure"]
\* the loading task's promise rejecting after destroy()
LoadAborted == [name |-> "Error", message |-> "Worker was destroyed"]
\* line 520
NotLoaded == [name |-> "Error", message |-> "PDF not loaded."]
\* line 522
InvalidPage == [name |-> "Error", message |-> "Invalid page number"]
\* line 531
NoContext == [name |-> "Error", message |-> "Failed to create canvas 2d context."]
\* getPage() or the render task failing in the engine
EngineError == [name |-> "UnknownErrorException", message |-> "engine failure"]
\* the engine's rejection of a cancelled RenderTask
RenderingCancelled ==
  [name |-> "RenderingCancelledException", message |-> "Rendering cancelled"]

(***************************************************************************)
(* The render lane: this.rendering = seq() (line 128) and render()         *)
(* (lines 513-515).  seq() comes from @wopjs/async-seq, which is not part  *)
(* of the repository: the lane runs the functions given to add() one at a  *)
(* time in the order they were added, and its dispose() empties the queue. *)
(* What the promise returned by add() does is left open between the two    *)
(* behaviours an implementation of that interface can have (seqRethrows):  *)
(*   TRUE   it settles as the function added settles                       *)
(*   FALSE  it resolves once the lane has run dry, errors being logged     *)
(***************************************************************************)
NoCall == [st |-> "none", pageNumber |-> 0, surface |-> "", origin |-> "",
           promise |-> "none", reason |-> NoError]

\* the canvases render() is given: this.canvas by refresh (line 426), the
\* canvas of a thumbnail by touch (line 407), a canvas of the caller's
Surfaces == {"primary", "preview", "own"}

\* what a canvas shows: nothing, nothing since call i gave it a new size
\* (lines 527-528 reset the bitmap), or the page call i drew (line 534)
Blank == [by |-> 0, page |-> 0]
Cleared(i) == [by |-> i, page |-> 0]
Drawn(i, pageNumber) == [by |-> i, page |-> pageNumber]

\* no canvas has been drawn; the primary canvas shows page 1, drawn by the
\* refresh of line 348
NoPaint == [s \in Surfaces |-> Blank]
FirstPage == [NoPaint EXCEPT !["primary"] = Drawn(0, 1)]

\* positions of render_ (lines 517-536): suspended at line 518, 523 or 534
Executing == {"ready", "page", "task"}
Settled   == {"returned", "threw"}

CallIds == 1..MaxCalls

\* line 514: the lane starts a function only when it runs nothing
LaneAlwaysIdle == TRUE
LaneIdle == running = 0

\* render(pageNumber, canvas, scale), lines 513-515: the call joins the
\* lane; on an idle lane render_ starts at once and suspends at line 518
Render(pageNumber, surface, origin) ==
  /\ ncalls < MaxCalls
  /\ ncalls' = ncalls + 1
  /\ calls' = [calls EXCEPT ![ncalls + 1] =
       [st |-> IF LaneIdle THEN "ready" ELSE "queued",
        pageNumber |-> pageNumber, surface |-> surface, origin |-> origin,
        promise |-> "pending", reason |-> NoError]]
  /\ fns' = Append(fns, ncalls + 1)
  /\ running' = IF LaneIdle THEN ncalls + 1 ELSE running

\* onRenderError(reason), lines 472-477: what reaches options.onRenderError
\* a call of options.onRenderError: the render() call it is about (0 for
\* onError), the reason, and this.destroyed at the moment of the call
Report(i, reason, wasDestroyed) ==
  [call |-> i, reason |-> reason, destroyed |-> wasDestroyed]

OnRenderErrorUnfiltered(i, reason) == {Report(i, reason, destroyed)}
OnRenderError(i, reason) ==
  IF Includes(ReasonText(reason), "RenderingCancelledException")
    THEN {}
    ELSE {Report(i, reason, destroyed)}

\* what follows the promise of render(): refresh() chains
\* .then(onRenderEnd).catch(onRenderError) (lines 426-428); touch (line 407)
\* and a direct caller chain nothing of the viewer's
Caught(i, origin, promise, reason) ==
  IF origin = "refresh" /\ promise = "rejected"
    THEN OnRenderError(i, reason)
    ELSE {}

\* render_ of call i returns or throws: the lane drops it from the queue,
\* starts the next function, and the promises of add() settle; of the call
\* stay its outcome and who made it, its arguments are gone
SettledCalls(i, st, reason) ==
  LET fns1 == IF fns # <<>> /\ Head(fns) = i THEN Tail(fns) ELSE fns
      next == IF fns1 # <<>> THEN Head(fns1) ELSE 0
      own  == IF seqRethrows
                THEN (IF st = "threw" THEN "rejected" ELSE "resolved")
                ELSE "pending"
      c1 == [calls EXCEPT ![i] = [NoCall EXCEPT !.st = st, !.reason = reason,
                                                 !.origin = calls[i].origin,
                                                 !.promise = own]]
      c2 == IF next # 0 THEN [c1 EXCEPT ![next] = [@ EXCEPT !.st = "ready"]]
                        ELSE c1
  IN IF next # 0 THEN c2
     ELSE [k \in CallIds |->
             IF c2[k].promise = "pending" /\ c2[k].st \notin Executing
               THEN [c2[k] EXCEPT !.promise = "resolved"]
               ELSE c2[k]]

Settle(i, st, reason) ==
  LET fns1 == IF fns # <<>> /\ Head(fns) = i THEN Tail(fns) ELSE fns
  IN /\ calls' = SettledCalls(i, st, reason)
     /\ fns' = fns1
     /\ running' = IF fns1 # <<>> THEN Head(fns1) ELSE 0
     /\ reported' = reported \cup
          Caught(i, calls[i].origin, SettledCalls(i, st, reason)[i].promise, reason)

(***************************************************************************)
(* Disposal: this.dispose = disposableStore([this.rendering]) (line 129)   *)
(* and the disposer of lines 205-213.  lt is the state of the loading      *)
(* task at the moment of the call.                                         *)
(***************************************************************************)
NoLoader == [exists |-> FALSE, observed |-> 0]

\* the calls the disposer makes, in the order of lines 206-212: each ?. call
\* is made only on a handle that is not null
DisposerCancelsFirst(loader, documentTask, renderingTask) ==
  (IF renderingTask # 0 THEN <<"lastRenderingTask.cancel">> ELSE <<>>)
  \o (IF documentTask # "null" THEN <<"getDocumentTask.destroy">> ELSE <<>>)
  \o (IF loader.exists THEN <<"previewLazyLoad.destroy">> ELSE <<>>)
  \o <<"destroyed = true">>
Disposer(loader, documentTask, renderingTask) ==
  <<"destroyed = true">>
  \o (IF loader.exists THEN <<"previewLazyLoad.destroy">> ELSE <<>>)
  \o (IF documentTask # "null" THEN <<"getDocumentTask.destroy">> ELSE <<>>)
  \o (IF renderingTask # 0 THEN <<"lastRenderingTask.cancel">> ELSE <<>>)

\* RenderTask.cancel(): a task that has not settled becomes cancelled
Cancel(tasks, i) ==
  IF i # 0 /\ tasks[i] = "running" THEN [tasks EXCEPT ![i] = "cancelled"]
                                   ELSE tasks

DisposeLoad(lt) ==
  IF disposed
    THEN /\ loadTask' = lt
         /\ UNCHANGED <<destroyed, disposed, disposeLog, getDocumentTask,
                           previewLazyLoad>>
    ELSE /\ disposed' = TRUE
         /\ destroyed' = TRUE
         /\ disposeLog' = Disposer(previewLazyLoad, getDocumentTask,
                                   lastRenderingTask)
         /\ previewLazyLoad' = NoLoader
         /\ loadTask' = IF getDocumentTask # "null" /\ lt = "pending"
                          THEN "destroyed" ELSE lt
         /\ getDocumentTask' = "null"

DisposeLane ==
  IF disposed
    THEN UNCHANGED <<calls, task, fns, lastRenderingTask>>
    ELSE /\ fns' = <<>>
         /\ calls' = [k \in CallIds |->
                        IF calls[k].st = "queued"
                          THEN [calls[k] EXCEPT !.st = "dropped"]
                          ELSE calls[k]]
         /\ task' = Cancel(task, lastRenderingTask)
         /\ lastRenderingTask' = 0

\* the engine releases a document when destroy() is called on its loading
\* task or on the document; the viewer's only destroy() of either is line 209
DocumentReleased ==
  \E k \in 1..Len(disposeLog) : disposeLog[k] = "getDocumentTask.destroy"

\* what dispose() does to the viewer itself
DisposeViewer ==
  /\ ~disposed
  /\ DisposeLoad(loadTask)
  /\ DisposeLane
  /\ UNCHANGED <<envVars, ctor, docSource, pdf, ready, pageIndex, ncalls,
                 running, painted, reported, showPreview, previewPages, touched,
                 touchCalls>>
  /\ UNCHANGED rangeVars

\* viewer.dispose()
Dispose ==
  /\ DisposeViewer
  /\ UNCHANGED navVars

\* line 459 comes before line 461: options.onRenderError sees this.destroyed
\* as it was when onError was entered
OnErrorReportsLast(reason, wasDestroyed) == {Report(0, reason, TRUE)}
OnErrorReport(reason, wasDestroyed) == {Report(0, reason, wasDestroyed)}

\* onError(reason), lines 458-462, on the lane and the callback
OnErrorLane(reason) ==
  /\ reported' = reported \cup OnErrorReport(reason, destroyed)
  /\ DisposeLane
  /\ UNCHANGED <<ncalls, running, painted>>

(***************************************************************************)
(* The constructor's continuation (lines 171-203).                         *)
(***************************************************************************)
\* lines 176-181: after the URL is known
AfterUrlUnchecked == "probe"
AfterUrl == IF destroyed THEN "done" ELSE "probe"

\* line 172: the URL the constructor builds, and a URL the hook returns
StaticUrl == "static"
TemporaryUrl == "temporary"

\* a fetch the viewer asks for: the HEAD request of prepare (line 181), the
\* document of getDocument(sourceUrl) (line 186), or the range requests of
\* the transport, which all go to the sourceUrl of line 191
Fetch(what, url) == [what |-> what, url |-> url]

\* no hook was called and nothing fetched
NoFetch ==
  /\ hookCalls = 0
  /\ sourceUrl = StaticUrl
  /\ fetched = {}

\* a viewer without a hook that has opened its document
Fetched(what) ==
  /\ hookCalls = 0
  /\ sourceUrl = StaticUrl
  /\ fetched = {Fetch("probe", StaticUrl), Fetch(what, StaticUrl)}

\* prepare(sourceUrl) is called when the continuation gets to line 181
Probed(next, url) ==
  IF next = "probe" THEN fetched \cup {Fetch("probe", url)} ELSE fetched

\* the library has loaded: line 171 up to the await of line 174 or 181
LibLoads ==
  /\ ctor = "lib"
  /\ ctor' = IF hasInterrupter THEN "interrupter" ELSE AfterUrl
  /\ hookCalls' = IF hasInterrupter THEN hookCalls + 1 ELSE hookCalls
  /\ fetched' = Probed(ctor', sourceUrl)
  /\ UNCHANGED <<server, hasInterrupter, seqRethrows, sourceUrl, navVars, destroyed, disposed, disposeLog, getDocumentTask,
                 docSource,
                 loadTask, pdf, ready, pageIndex, laneVars, reported,
                 previewVars>>
  /\ UNCHANGED rangeVars

\* the library fails to load: line 203, onError
LibFails ==
  /\ ctor = "lib"
  /\ ctor' = "failed"
  /\ OnErrorLane(LibError)
  /\ DisposeLoad(loadTask)
  /\ UNCHANGED <<envVars, navVars, docSource, pdf, ready, pageIndex, showPreview,
                 previewPages, touched,
                 touchCalls>>
  /\ UNCHANGED rangeVars

\* options.urlInterrupter(sourceUrl) resolves: lines 174-181
InterrupterResolves ==
  /\ ctor = "interrupter"
  /\ ctor' = AfterUrl
  /\ sourceUrl' = TemporaryUrl
  /\ fetched' = Probed(ctor', TemporaryUrl)
  /\ UNCHANGED <<server, hasInterrupter, seqRethrows, hookCalls, navVars, destroyed, disposed, disposeLog, getDocumentTask,
                 docSource,
                 loadTask, pdf, ready, pageIndex, laneVars, reported,
                 previewVars>>
  /\ UNCHANGED rangeVars

\* urlInterrupter or the fetch of prepare rejects: the continuation throws
\* and nothing catches it
ContinuationThrows ==
  /\ ctor \in {"interrupter", "probe"}
  /\ ctor' = IF ctor = "probe" THEN "probe threw" ELSE "interrupter threw"
  /\ UNCHANGED <<envVars, navVars, destroyed, disposed, disposeLog, getDocumentTask,
                 docSource,
                 loadTask, pdf, ready, pageIndex, laneVars, reported,
                 previewVars>>
  /\ UNCHANGED rangeVars

\* prepare() returns: lines 181-201
ProbeResponds ==
  /\ ctor = "probe"
  /\ ctor' = "done"
  /\ LET p == Prepare(server)
     IN IF destroyed
          THEN UNCHANGED <<getDocumentTask, docSource, loadTask, fetched>>
          ELSE /\ loadTask' = "pending"
               /\ IF WholeFile(p.length, p.supportsRange)
                    THEN /\ getDocumentTask' = "whole"
                         /\ docSource' = UrlSource
                         /\ fetched' =
                              fetched \cup {Fetch("document", sourceUrl)}
                    ELSE /\ getDocumentTask' = "range"
                         /\ docSource' = RangeSource(p.length)
                         /\ fetched' =
                              fetched \cup {Fetch("range", sourceUrl)}
  /\ UNCHANGED <<server, hasInterrupter, seqRethrows, hookCalls, sourceUrl,
                 navVars, destroyed, disposed, disposeLog, pdf, ready,
                 pageIndex,
                 laneVars, reported, previewVars>>
  /\ UNCHANGED rangeVars

\* refresh(), lines 415-429, with the page index it reads
Refresh(index, doc) ==
  IF destroyed \/ doc = 0
    THEN UNCHANGED <<calls, ncalls, fns, running>>
    ELSE Render(index + 1, "primary", "refresh")

(***************************************************************************)
(* The shared page index of the collaborative app: syncPage and the        *)
(* callbacks of ready (unnamed/part_004 lines 125-147 and 270-287).        *)
(***************************************************************************)
\* String(index + 1), lines 137 and 171: the scene of page index x
SceneName(x) == IF x.nan THEN NaNNum ELSE Num(x.halves + 2)

\* lines 141-143 and 172-174: addPage unless a scene has the name
AddPage(sc, x) == [sc EXCEPT !.names = @ \cup {SceneName(x)}]

\* line 127: lastIndex !== index
DiffersAlways(last, index) == TRUE
Differs(last, index) ==
  last.nan \/ index.nan \/ last.halves # index.halves

\* the last two events of a log
LastTwo(log) == IF Len(log) > 2 THEN Tail(log) ELSE log

\* lines 132-143 of syncPage: what it does to the scenes sc
SyncScenes(sc, x) == IF writable /\ sc.dir THEN AddPage(sc, x) ELSE sc

\* syncPage(index), lines 126-147, the document having numPages pages and
\* the scenes being sc, up to its first await: with the scene there it
\* calls setScenePath (line 146), else it calls addPage and is suspended
\* (line 142)
SyncPage(x, numPages, sc) ==
  /\ IF Differs(lastIndex, x)
       THEN /\ lastIndex' = x
            /\ pageEvents' =
                 LastTwo(Append(pageEvents,
                                [index |-> x, length |-> numPages]))
       ELSE UNCHANGED <<lastIndex, pageEvents>>
  /\ scenes' = SyncScenes(sc, x)
  /\ IF writable /\ sc.dir
       THEN IF SceneName(x) \in sc.names
              THEN /\ scenePath' = SceneName(x)
                   /\ UNCHANGED syncing
              ELSE /\ syncing' = Append(syncing, x)
                   /\ UNCHANGED scenePath
       ELSE UNCHANGED <<scenePath, syncing>>

\* "Prepare scenes", lines 271-281: scenes.length of no scenes throws
PrepareScenes(sc, numPages) ==
  IF isAddApp /\ writable /\ sc.dir /\ Cardinality(sc.names) < numPages
    THEN [sc EXCEPT !.names = @ \cup {Num(2 * k) : k \in 1..numPages}]
    ELSE sc

\* the callbacks setup() gave to app.ready, lines 271-287
AppReady(numPages) ==
  IF box = "none"
    THEN UNCHANGED <<scenes, lastIndex, pageEvents, pathVars>>
    ELSE SyncPage(pageState, numPages, PrepareScenes(scenes, numPages))

\* the loading task's promise resolves: onLoad (lines 431-455) without
\* options.maxSize, then the callbacks of ready (lines 249-252 and 348,
\* and those of the collaborative app)
DocumentLoads(numPages) ==
  /\ loadTask \in {"pending", "destroyed"}
  /\ loadTask' = "resolved"
  /\ IF destroyed
       THEN UNCHANGED <<getDocumentTask, pdf, ready, previewPages, calls,
                        ncalls, fns, running, scenes, lastIndex,
                        pageEvents, pathVars>>
       ELSE /\ pdf' = numPages
            /\ getDocumentTask' = "null"
            /\ ready' = TRUE
            /\ UNCHANGED previewPages
            /\ Refresh(pageIndex, numPages)
            /\ AppReady(numPages)
  /\ UNCHANGED <<readonly, box, writable, pageState, pageNotify, lastEvent,
                 warned, isAddApp, viewVars>>
  /\ UNCHANGED <<envVars, ctor, destroyed, disposed, disposeLog, docSource,
                 pageIndex,
                 task, lastRenderingTask, painted, reported, showPreview,
                 previewLazyLoad, touched,
                 touchCalls>>
  /\ UNCHANGED rangeVars

\* the loading task's promise rejects: onError (lines 458-462)
DocumentFails ==
  /\ loadTask \in {"pending", "destroyed"}
  /\ OnErrorLane(IF loadTask = "destroyed" THEN LoadAborted ELSE LoadError)
  /\ DisposeLoad("rejected")
  /\ UNCHANGED <<envVars, navVars, ctor, docSource, pdf, ready, pageIndex,
                 showPreview, previewPages, touched,
                 touchCalls>>
  /\ UNCHANGED rangeVars

(***************************************************************************)
(* Page index, refresh and the callers of render().                        *)
(***************************************************************************)
\* the visibilitychange listener, lines 344-346
VisibilityChange ==
  /\ ~disposed
  /\ Refresh(pageIndex, pdf)
  /\ UNCHANGED <<envVars, navVars, loadVars, pageIndex, task, lastRenderingTask, painted,
                 reported, previewVars>>
  /\ UNCHANGED rangeVars

\* setPageIndex(index) with an integer, lines 366-372
SetPageIndex(index) ==
  /\ pageIndex' = index
  /\ Refresh(index, pdf)
  /\ UNCHANGED <<envVars, navVars, loadVars, task, lastRenderingTask, painted, reported,
                 previewVars>>
  /\ UNCHANGED rangeVars

\* a caller's own viewer.render(pageNumber) on a canvas of its own
DirectRender(pageNumber) ==
  /\ Render(pageNumber, "own", "direct")
  /\ UNCHANGED <<envVars, navVars, loadVars, pageIndex, task, lastRenderingTask, painted,
                 reported, previewVars>>
  /\ UNCHANGED rangeVars

\* makePreview() appends the next thumbnail, lines 486-510
MakePreviewStep ==
  /\ ready
  /\ previewPages < pdf
  /\ previewPages' = previewPages + 1
  /\ UNCHANGED <<envVars, navVars, loadVars, pageIndex, laneVars, reported,
                 showPreview, previewLazyLoad, touched,
                 touchCalls>>
  /\ UNCHANGED rangeVars

\* togglePreview(show), lines 394-413; show is "toggle" when not given
TogglePreview(show) ==
  /\ showPreview' = IF show = "toggle" THEN ~showPreview ELSE (show = "show")
  /\ previewLazyLoad' =
       IF showPreview' /\ pageIndex \in 0..(previewPages - 1)
                       /\ ~previewLazyLoad.exists
         THEN [exists |-> TRUE, observed |-> previewPages]
         ELSE previewLazyLoad
  /\ UNCHANGED <<envVars, navVars, loadVars, pageIndex, laneVars, reported,
                 previewPages, touched,
                 touchCalls>>
  /\ UNCHANGED rangeVars

\* line 405: if (this.touched[pageNumber]) return
AlreadyTouchedNever(k) == FALSE
AlreadyTouched(k) == k \in touched

\* touch(canvas) for the canvas of thumbnail k, lines 403-408
Touch(k) ==
  IF AlreadyTouched(k)
    THEN UNCHANGED <<touched, calls, ncalls, fns, running>>
    ELSE /\ touched' = touched \cup {k}
         /\ Render(k, "preview", "touch")

\* one more call of options.touch for a thumbnail
Again(count) == IF count = "none" THEN "once" ELSE "again"

\* PreviewLazyLoad.handler (lines 111-116) for one entry of the observer:
\* thumbnail k entering (isIntersecting) or leaving the strip's viewport
Handler(k, isIntersecting) ==
  /\ previewLazyLoad.exists
  /\ k \in 1..previewLazyLoad.observed
  /\ IF isIntersecting
       THEN /\ touchCalls' = [touchCalls EXCEPT ![k] = Again(@)]
            /\ Touch(k)
       ELSE UNCHANGED <<touchCalls, touched, calls, ncalls, fns, running>>
  /\ UNCHANGED <<envVars, navVars, loadVars, pageIndex, task, lastRenderingTask, painted,
                 reported, showPreview, previewLazyLoad, previewPages>>
  /\ UNCHANGED rangeVars

(***************************************************************************)
(* Navigation: the listeners of the constructor (lines 239-248, 301-342),  *)
(* setReadonly, onNewPageIndex and its override in the collaborative app   *)
(* (unnamed/part_004).                                                     *)
(***************************************************************************)
\* line 375, part_004 lines 53 and 156: 0 <= index && index < numPages
InBoundsNoLower(x, numPages) == ~x.nan /\ x.halves < 2 * numPages
InBounds(x, numPages) == ~x.nan /\ 0 <= x.halves /\ x.halves < 2 * numPages

\* setPageIndex(pageIndex) with any number, lines 366-372
ApplyPageIndex(x) ==
  IF IsSafeInteger(x)
    THEN /\ pageIndex' = x.halves \div 2
         /\ Refresh(x.halves \div 2, pdf)
    ELSE UNCHANGED <<pageIndex, calls, ncalls, fns, running>>

\* the console.warn of part_004 lines 55-59 and 157-161
BoundsWarning(numPages) ==
  IF numPages = 0 THEN "not ready" ELSE "out of bounds"

\* part_004 line 150: !context.getIsWritable()
NoPermissionNever(isWritable) == FALSE
NoPermission(isWritable) == ~isWritable

\* jumpPage(index), part_004 lines 149-178; page$$.setState notifies its
\* listeners of a changed index
JumpPage(x) ==
  IF NoPermission(writable)
    THEN /\ warned' = "no permission"
         /\ UNCHANGED <<pageState, pageNotify, scenes>>
    ELSE IF ~InBounds(x, pdf)
      THEN /\ warned' = BoundsWarning(pdf)
           /\ UNCHANGED <<pageState, pageNotify, scenes>>
      ELSE IF ~scenes.dir
        THEN /\ warned' = "no scenes"
             /\ UNCHANGED <<pageState, pageNotify, scenes>>
        ELSE /\ warned' = ""
             /\ scenes' = AddPage(scenes, x)
             /\ pageState' = x
             /\ pageNotify' = (pageNotify \/ x # pageState)

\* part_004 line 48: origin === 'keydown' && this.box && !this.box.focus
KeydownUnheard(origin) == origin = "keydown" /\ box # "focused"

\* onNewPageIndex(index, origin): lines 374-378 for a plain PDFViewer,
\* part_004 lines 47-60 for the collaborative AppPDFViewer
OnNewPageIndex(x, origin) ==
  IF box = "none"
    THEN /\ IF InBounds(x, pdf)
              THEN ApplyPageIndex(x)
              ELSE UNCHANGED <<pageIndex, calls, ncalls, fns, running>>
         /\ warned' = ""
         /\ UNCHANGED <<pageState, pageNotify, scenes>>
    ELSE /\ IF KeydownUnheard(origin)
              THEN /\ warned' = ""
                   /\ UNCHANGED <<pageState, pageNotify, scenes>>
              ELSE IF InBounds(x, pdf)
                THEN JumpPage(x)
                ELSE /\ warned' = BoundsWarning(pdf)
                     /\ UNCHANGED <<pageState, pageNotify, scenes>>
         /\ UNCHANGED <<pageIndex, calls, ncalls, fns, running>>

\* a listener that returns at once
Ignored ==
  /\ warned' = ""
  /\ UNCHANGED <<pageIndex, calls, ncalls, fns, running, pageState,
                 pageNotify, scenes>>

\* what no listener of the footer or the window touches
ListenerFrame ==
  /\ UNCHANGED <<envVars, loadVars, task, lastRenderingTask, painted, reported>>
  /\ UNCHANGED <<readonly, box, writable, isAddApp, lastIndex, pageEvents,
                 pathVars, viewVars>>
  /\ UNCHANGED rangeVars

\* click on the page-back button, lines 301-304
ClickPageBack ==
  /\ ~disposed
  /\ lastEvent' = [NoEvent EXCEPT !.type = "back"]
  /\ IF ~readonly /\ pageIndex > 0
       THEN OnNewPageIndex(Num(2 * (pageIndex - 1)), "navigation")
       ELSE Ignored
  /\ UNCHANGED previewVars
  /\ ListenerFrame

\* click on the page-next button, lines 310-314
ClickPageNext ==
  /\ ~disposed
  /\ lastEvent' = [NoEvent EXCEPT !.type = "next"]
  /\ IF ~readonly /\ pageIndex < pdf - 1
       THEN OnNewPageIndex(Num(2 * (pageIndex + 1)), "navigation")
       ELSE Ignored
  /\ UNCHANGED previewVars
  /\ ListenerFrame

\* change of the page-number input to the text value, lines 326-331
InputChange(value) ==
  /\ ~disposed
  /\ lastEvent' = [NoEvent EXCEPT !.type = "input", !.value = value]
  /\ IF ~readonly /\ value # <<>>
       THEN OnNewPageIndex(Minus1(ToNumber(value)), "input")
       ELSE Ignored
  /\ UNCHANGED previewVars
  /\ ListenerFrame

\* isEditable(el), lines 542-546, for an element
IsEditableInputOnly(tagName) == tagName = "INPUT"
IsEditable(tagName) == tagName \in {"INPUT", "TEXTAREA", "SELECT"}

\* keydown on the window, lines 336-342
KeyDown(key, tagName) ==
  /\ ~disposed
  /\ lastEvent' = [NoEvent EXCEPT !.type = "keydown", !.key = key,
                                   !.tagName = tagName]
  /\ IF readonly \/ IsEditable(tagName)
       THEN Ignored
       ELSE IF key \in {"ArrowUp", "ArrowLeft"}
         THEN OnNewPageIndex(Num(2 * (pageIndex - 1)), "keydown")
         ELSE IF key \in {"ArrowDown", "ArrowRight"}
           THEN OnNewPageIndex(Num(2 * (pageIndex + 1)), "keydown")
           ELSE Ignored
  /\ UNCHANGED previewVars
  /\ ListenerFrame

\* click on thumbnail number index of the open preview strip, lines 239-248
PreviewClick(index) ==
  /\ ~disposed
  /\ showPreview
  /\ index \in 0..(previewPages - 1)
  /\ lastEvent' = [NoEvent EXCEPT !.type = "preview", !.value = <<index>>]
  /\ OnNewPageIndex(ToNumber(<<index>>), "preview")
  /\ showPreview' = FALSE
  /\ UNCHANGED <<previewLazyLoad, previewPages, touched, touchCalls>>
  /\ ListenerFrame

\* click on the sidebar button, lines 285-288
ClickSidebar ==
  /\ ~disposed
  /\ lastEvent' = [NoEvent EXCEPT !.type = "sidebar"]
  /\ IF readonly
       THEN UNCHANGED <<showPreview, previewLazyLoad>>
       ELSE /\ showPreview' = ~showPreview
            /\ previewLazyLoad' =
                 IF showPreview' /\ pageIndex \in 0..(previewPages - 1)
                                 /\ ~previewLazyLoad.exists
                   THEN [exists |-> TRUE, observed |-> previewPages]
                   ELSE previewLazyLoad
  /\ Ignored
  /\ UNCHANGED <<previewPages, touched, touchCalls>>
  /\ ListenerFrame

\* setReadonly(readonly), lines 358-364
SetReadonly(value) ==
  /\ readonly' = value
  /\ UNCHANGED <<envVars, loadVars, pageIndex, laneVars, reported,
                 previewVars, box, writable, pageState, pageNotify,
                 lastEvent, warned, pageVars, viewVars>>
  /\ UNCHANGED rangeVars

\* the writableChange listener of the app, part_004 lines 304-307, with
\* options.disableCameraTransform not set
WritableChange(isWritable) ==
  /\ box # "none"
  /\ ~disposed
  /\ writable' = isWritable
  /\ readonly' = ~isWritable
  /\ disableCameraTransform' = ~isWritable
  /\ UNCHANGED <<envVars, loadVars, pageIndex, laneVars, reported,
                 previewVars, box, pageState, pageNotify, lastEvent,
                 warned, pageVars, mounted, sized, camera, throttleSyncView,
                 timers, viewState, viewNotify, frameVars>>
  /\ UNCHANGED rangeVars

\* the app's box gains or loses the input focus
BoxFocus(focus) ==
  /\ box # "none"
  /\ box' = IF focus THEN "focused" ELSE "blurred"
  /\ UNCHANGED <<envVars, loadVars, pageIndex, laneVars, reported,
                 previewVars, readonly, writable, pageState, pageNotify,
                 lastEvent, warned, pageVars, viewVars>>
  /\ UNCHANGED rangeVars

\* the listeners of page$$: setPageIndex of the shared index (part_004
\* lines 89-91) and, once the viewer is ready, syncPage (line 285)
PageStateChanged ==
  /\ box # "none"
  /\ ~disposed
  /\ pageNotify
  /\ pageNotify' = FALSE
  /\ ApplyPageIndex(pageState)
  /\ IF ready
       THEN SyncPage(pageState, pdf, scenes)
       ELSE UNCHANGED <<scenes, lastIndex, pageEvents, pathVars>>
  /\ UNCHANGED <<envVars, loadVars, task, lastRenderingTask, painted, reported,
                 previewVars, readonly, box, writable, pageState, lastEvent,
                 warned, isAddApp, viewVars>>
  /\ UNCHANGED rangeVars

\* the indexes jumpPage lets through for a document of numPages pages
PageIndexes(numPages) == {Num(h) : h \in 0..(2 * numPages - 1)}

\* jumpPage of another peer that shows the same document: lines 171-176
RemotePageWrite(x) ==
  /\ box # "none"
  /\ scenes.dir
  /\ x # pageState
  /\ pageState' = x
  /\ pageNotify' = ~disposed
  /\ scenes' = AddPage(scenes, x)
  /\ UNCHANGED <<envVars, loadVars, pageIndex, laneVars, reported,
                 previewVars, readonly, box, writable, lastEvent, warned,
                 isAddApp, lastIndex, pageEvents, pathVars, viewVars>>
  /\ UNCHANGED rangeVars

\* context.addPage of a suspended syncPage resolves: line 146
AddPageResolves ==
  /\ syncing # <<>>
  /\ syncing' = Tail(syncing)
  /\ scenePath' = SceneName(Head(syncing))
  /\ UNCHANGED <<envVars, loadVars, pageIndex, laneVars, reported,
                 previewVars, readonly, box, writable, pageState, pageNotify,
                 lastEvent, warned, isAddApp, scenes, lastIndex, pageEvents,
                 viewVars>>
  /\ UNCHANGED rangeVars

(***************************************************************************)
(* The shared viewport of the collaborative app: syncView, its timer,      *)
(* syncViewFromRemote and scaleDocsToFit (unnamed/part_004 lines 180-232   *)
(* and 283-309).                                                           *)
(***************************************************************************)
\* what the view$$ listener and the page$$ listener leave alone
ViewFrame ==
  /\ UNCHANGED <<envVars, loadVars, pageIndex, laneVars, reported,
                 previewVars>>
  /\ UNCHANGED <<readonly, box, writable, pageState, pageNotify, warned,
                 pageVars>>
  /\ UNCHANGED rangeVars

\* part_004 line 203: throttleSyncView > 0
ThrottledNever(timer) == FALSE
Throttled(timer) == timer > 0

\* setTimeout gives a new positive id
NewTimer(pending) ==
  1 + Cardinality({k \in 1..Len(pending) : pending[k].id > 0})

\* syncView(), part_004 lines 202-218, with the camera showing rectangle c:
\* lines 206-212 compute the rectangle when the timer is set
SyncView(c) ==
  IF Throttled(throttleSyncView)
    THEN UNCHANGED <<throttleSyncView, timers>>
    ELSE IF sized /\ writable
      THEN /\ throttleSyncView' = NewTimer(timers)
           /\ timers' = Append(timers, [id |-> NewTimer(timers), rect |-> c])
      ELSE UNCHANGED <<throttleSyncView, timers>>

\* part_004 line 236: throttleSyncPDF > 0
FramePendingNever(frame) == FALSE
FramePending(frame) == frame > 0

\* syncPDFView(), part_004 lines 235-253: requestAnimationFrame gives a new
\* positive id
SyncPDFView ==
  IF FramePending(throttleSyncPDF)
    THEN UNCHANGED <<throttleSyncPDF, frames>>
    ELSE /\ throttleSyncPDF' = NewTimer(frames)
         /\ frames' = Append(frames, [id |-> NewTimer(frames)])

\* the onCameraUpdated callback, part_004 line 259, of a step that may have
\* moved the camera
OnCameraUpdated ==
  IF camera' # camera THEN SyncPDFView
                      ELSE UNCHANGED <<throttleSyncPDF, frames>>

\* the callback of requestAnimationFrame, part_004 lines 237-252, for the
\* oldest frame: the transform is made from view.camera as it is now
AnimationFrame ==
  /\ frames # <<>>
  /\ throttleSyncPDF' = 0
  /\ frames' = Tail(frames)
  /\ transform' = IF sized THEN camera ELSE transform
  /\ UNCHANGED <<mounted, sized, camera, throttleSyncView, timers, viewState,
                 disableCameraTransform, viewNotify>>
  /\ UNCHANGED lastEvent
  /\ ViewFrame

\* clearTimeout(id) and cancelAnimationFrame(id), part_004 lines 220 and
\* 255: the callback of that id will not run
ClearTimeout(pending, id) == SelectSeq(pending, LAMBDA t : t.id # id)

\* a state listener of view$$ exists once ready.then has run (line 286)
ViewListened == ready /\ ~disposed

\* the device of the user moves the camera to show rectangle c: the
\* onCameraUpdatedByDevice callback, part_004 line 299
CameraUpdatedByDevice(c) ==
  /\ mounted
  /\ ~disposed
  /\ ~disableCameraTransform
  /\ c # camera
  /\ lastEvent' = [NoEvent EXCEPT !.type = "camera", !.value = <<c>>]
  /\ camera' = c
  /\ SyncView(c)
  /\ OnCameraUpdated
  /\ UNCHANGED <<mounted, sized, viewState, disableCameraTransform,
                 viewNotify, transform>>
  /\ ViewFrame

\* the callback of setTimeout, part_004 lines 213-216, for the oldest timer
SyncViewTimer ==
  /\ timers # <<>>
  /\ throttleSyncView' = 0
  /\ timers' = Tail(timers)
  /\ viewState' = [uid |-> Me, rect |-> Head(timers).rect]
  /\ viewNotify' = (ViewListened /\ (viewNotify \/ viewState' # viewState))
  /\ UNCHANGED <<mounted, sized, camera, disableCameraTransform, frameVars>>
  /\ UNCHANGED lastEvent
  /\ ViewFrame

\* part_004 line 226: force || uid !== me
AppliesAny(force, uid) == TRUE
AppliesOthersOnly(force, uid) == uid # Me
Applies(force, uid) == force \/ uid # Me

\* the camera after syncViewFromRemote(force), part_004 lines 224-232, of a
\* view whose camera is c
SyncViewFromRemote(force, c) ==
  IF Applies(force, viewState.uid) /\ viewState.rect > 0
    THEN viewState.rect
    ELSE c

\* the camera after scaleDocsToFit(), part_004 lines 180-197
ScaleDocsToFit(hasSize, c) ==
  IF hasSize THEN SyncViewFromRemote(TRUE, DocCamera) ELSE c

\* the end of setup(), part_004 lines 289-302
Mount ==
  /\ box # "none"
  /\ ~mounted
  /\ mounted' = TRUE
  /\ camera' = SyncViewFromRemote(TRUE, camera)
  /\ OnCameraUpdated
  /\ UNCHANGED <<sized, throttleSyncView, timers, viewState,
                 disableCameraTransform, viewNotify, transform>>
  /\ UNCHANGED lastEvent
  /\ ViewFrame

\* the container of the view is resized: the onSizeUpdated callback,
\* part_004 line 294
SizeUpdated ==
  /\ mounted
  /\ ~disposed
  /\ camera' = ScaleDocsToFit(sized, camera)
  /\ OnCameraUpdated
  /\ UNCHANGED <<mounted, sized, throttleSyncView, timers, viewState,
                 disableCameraTransform, viewNotify, transform>>
  /\ UNCHANGED lastEvent
  /\ ViewFrame

\* a render of the primary canvas ends: line 529 of pdf-viewer.ts has given
\* the canvas its size, then onRenderEnd of part_004 lines 62-66
OnRenderEnd ==
  /\ mounted
  /\ ready
  /\ ~disposed
  /\ sized' = TRUE
  /\ camera' = ScaleDocsToFit(TRUE, camera)
  /\ SyncPDFView
  /\ UNCHANGED <<mounted, throttleSyncView, timers, viewState,
                 disableCameraTransform, viewNotify, transform>>
  /\ UNCHANGED lastEvent
  /\ ViewFrame

\* the state listener of view$$, part_004 line 286
ViewStateChanged ==
  /\ ViewListened
  /\ viewNotify
  /\ viewNotify' = FALSE
  /\ camera' = SyncViewFromRemote(FALSE, camera)
  /\ OnCameraUpdated
  /\ UNCHANGED <<mounted, sized, throttleSyncView, timers, viewState,
                 disableCameraTransform, transform>>
  /\ UNCHANGED lastEvent
  /\ ViewFrame

\* the document of the app loads; setup() has returned by then
AppDocumentLoads(numPages) ==
  /\ mounted
  /\ DocumentLoads(numPages)

\* another peer's timer of syncView writes view$$
RemoteViewWrite(rect) ==
  /\ box # "none"
  /\ viewState' = [uid |-> Peer, rect |-> rect]
  /\ viewState' # viewState
  /\ viewNotify' = ViewListened
  /\ UNCHANGED <<mounted, sized, camera, throttleSyncView, timers,
                 disableCameraTransform, frameVars>>
  /\ UNCHANGED lastEvent
  /\ ViewFrame

\* the 'destroy' listener, part_004 line 309: dispose() clears the timer
\* of throttleSyncView (lines 219-222), cancels the frame of
\* throttleSyncPDF (lines 254-257) and disposes of the viewer
AppDispose ==
  /\ mounted
  /\ DisposeViewer
  /\ timers' = ClearTimeout(timers, throttleSyncView)
  /\ throttleSyncView' = 0
  /\ frames' = ClearTimeout(frames, throttleSyncPDF)
  /\ throttleSyncPDF' = 0
  /\ viewNotify' = FALSE
  /\ UNCHANGED <<readonly, box, writable, pageState, pageNotify, lastEvent,
                 warned, pageVars, mounted, sized, camera, viewState,
                 disableCameraTransform, transform>>

(***************************************************************************)
(* render_ (lines 517-536), one action per resumption.                     *)
(***************************************************************************)
\* line 521: 1 <= pageNumber && pageNumber <= pdf.numPages
ValidPage(pageNumber, numPages) == 1 <= pageNumber /\ pageNumber <= numPages

\* line 518: await this.ready lets render_ go on once ready is resolved
AwaitSkipped(isReady) == TRUE
AwaitReady(isReady) == isReady

\* await this.ready resumes: lines 519-523
ResumeReady(i) ==
  /\ calls[i].st = "ready"
  /\ AwaitReady(ready)
  /\ IF pdf = 0
       THEN Settle(i, "threw", NotLoaded)
       ELSE IF ~ValidPage(calls[i].pageNumber, pdf)
         THEN Settle(i, "threw", InvalidPage)
         ELSE /\ calls' = [calls EXCEPT ![i] = [@ EXCEPT !.st = "page"]]
              /\ UNCHANGED <<fns, running, reported>>
  /\ UNCHANGED <<envVars, navVars, loadVars, pageIndex, ncalls, task,
                 lastRenderingTask, painted, previewVars>>
  /\ UNCHANGED rangeVars

\* await pdf.getPage(pageNumber) resumes: lines 524-534
GetPageResolves(i, context) ==
  /\ calls[i].st = "page"
  /\ painted' = [painted EXCEPT ![calls[i].surface] = Cleared(i)]
  /\ IF ~context
       THEN /\ Settle(i, "threw", NoContext)
            /\ UNCHANGED <<task, lastRenderingTask>>
       ELSE /\ task' = [Cancel(task, lastRenderingTask) EXCEPT ![i] = "running"]
            /\ lastRenderingTask' = i
            /\ calls' = [calls EXCEPT ![i] = [@ EXCEPT !.st = "task"]]
            /\ UNCHANGED <<fns, running, reported>>
  /\ UNCHANGED <<envVars, navVars, loadVars, pageIndex, ncalls, previewVars>>
  /\ UNCHANGED rangeVars

\* pdf.getPage(pageNumber) rejects: render_ throws at line 523
GetPageRejects(i) ==
  /\ calls[i].st = "page"
  /\ Settle(i, "threw", EngineError)
  /\ UNCHANGED <<envVars, navVars, loadVars, pageIndex, ncalls, task,
                 lastRenderingTask, painted, previewVars>>
  /\ UNCHANGED rangeVars

\* the render task completes: lines 534-535
TaskCompletes(i) ==
  /\ calls[i].st = "task"
  /\ task[i] = "running"
  /\ task' = [task EXCEPT ![i] = "done"]
  /\ lastRenderingTask' = 0
  /\ painted' = [painted EXCEPT ![calls[i].surface] =
                   Drawn(i, calls[i].pageNumber)]
  /\ Settle(i, "returned", NoError)
  /\ UNCHANGED <<envVars, navVars, loadVars, pageIndex, ncalls, previewVars>>
  /\ UNCHANGED rangeVars

\* the render task fails in the engine: render_ throws at line 534
TaskFails(i) ==
  /\ calls[i].st = "task"
  /\ task[i] = "running"
  /\ task' = [task EXCEPT ![i] = "failed"]
  /\ Settle(i, "threw", EngineError)
  /\ UNCHANGED <<envVars, navVars, loadVars, pageIndex, ncalls, lastRenderingTask,
                 painted, previewVars>>
  /\ UNCHANGED rangeVars

\* the promise of a cancelled render task rejects: render_ throws at 534
TaskCancelled(i) ==
  /\ calls[i].st = "task"
  /\ task[i] = "cancelled"
  /\ Settle(i, "threw", RenderingCancelled)
  /\ UNCHANGED <<envVars, navVars, loadVars, pageIndex, ncalls, task,
                 lastRenderingTask, painted, previewVars>>
  /\ UNCHANGED rangeVars

\* the render_ of a refresh that was suspended when the app was disposed
\* runs to its end, lines 518-535 reading this.destroyed nowhere: its task
\* completes, the promise of render() resolves and onRenderEnd (line 427,
\* part_004 lines 62-66) calls scaleDocsToFit and syncPDFView
RenderEndsDisposed(i) ==
  /\ mounted
  /\ disposed
  /\ calls[i].origin = "refresh"
  /\ calls[i].st \in Executing
  /\ AwaitReady(ready)
  /\ pdf # 0
  /\ ValidPage(calls[i].pageNumber, pdf)
  /\ SettledCalls(i, "returned", NoError)[i].promise = "resolved"
  /\ task' = [Cancel(task, lastRenderingTask) EXCEPT ![i] = "done"]
  /\ lastRenderingTask' = 0
  /\ painted' = [painted EXCEPT ![calls[i].surface] =
                   Drawn(i, calls[i].pageNumber)]
  /\ Settle(i, "returned", NoError)
  /\ sized' = TRUE
  /\ camera' = ScaleDocsToFit(TRUE, camera)
  /\ SyncPDFView
  /\ UNCHANGED <<envVars, loadVars, pageIndex, ncalls, previewVars>>
  /\ UNCHANGED <<readonly, box, writable, pageState, pageNotify, lastEvent,
                 warned, pageVars>>
  /\ UNCHANGED <<mounted, throttleSyncView, timers, viewState,
                 disableCameraTransform, viewNotify, transform>>
  /\ UNCHANGED rangeVars

(***************************************************************************)
(* Specifications.                                                         *)
(***************************************************************************)
LargeRangeResponse ==
  [ok |-> TRUE, contentLength |-> <<5,2,4,2,8,8,0,0>>, acceptRanges |-> "bytes"]

\* a viewer right after construction (lines 131-154, 167-170)
InitViewer ==
  /\ hasInterrupter \in BOOLEAN
  /\ NoFetch
  /\ seqRethrows \in BOOLEAN
  /\ ctor = "lib"
  /\ destroyed = FALSE
  /\ disposed = FALSE
  /\ disposeLog = <<>>
  /\ getDocumentTask = "null"
  /\ docSource = NoSource
  /\ loadTask = "none"
  /\ pdf = 0
  /\ ready = FALSE
  /\ pageIndex = 0
  /\ calls = [i \in CallIds |-> NoCall]
  /\ ncalls = 0
  /\ task = [i \in CallIds |-> "none"]
  /\ fns = <<>>
  /\ running = 0
  /\ lastRenderingTask = 0
  /\ painted = NoPaint
  /\ reported = {}
  /\ showPreview = FALSE
  /\ previewLazyLoad = NoLoader
  /\ previewPages = 0
  /\ touched = {}
  /\ touchCalls = [k \in 1..MaxPages |-> "none"]
  /\ readonly = FALSE
  /\ box = "none"
  /\ writable = TRUE
  /\ pageState = Num(0)
  /\ pageNotify = FALSE
  /\ lastEvent = NoEvent
  /\ NoApp

\* no range transport is open
NoRange ==
  /\ signalAborted = FALSE
  /\ req = [i \in 1..MaxReq |-> IdleReq]
  /\ rangeLength = 0
  /\ dataRanges = {}
  /\ progressiveDone = FALSE

\* a viewer whose constructor took the range path (lines 188-199)
RangeOpened ==
  /\ server = LargeRangeResponse
  /\ hasInterrupter = FALSE
  /\ seqRethrows = FALSE
  /\ ctor = "done"
  /\ Fetched("range")
  /\ destroyed = FALSE
  /\ disposed = FALSE
  /\ disposeLog = <<>>
  /\ getDocumentTask = "range"
  /\ docSource = RangeSource(Prepare(LargeRangeResponse).length)
  /\ loadTask = "pending"
  /\ pdf = 0
  /\ ready = FALSE
  /\ pageIndex = 0
  /\ calls = [i \in CallIds |-> NoCall]
  /\ ncalls = 0
  /\ task = [i \in CallIds |-> "none"]
  /\ fns = <<>>
  /\ running = 0
  /\ lastRenderingTask = 0
  /\ painted = NoPaint
  /\ reported = {}
  /\ showPreview = FALSE
  /\ previewLazyLoad = NoLoader
  /\ previewPages = 0
  /\ touched = {}
  /\ touchCalls = [k \in 1..MaxPages |-> "none"]
  /\ readonly = FALSE
  /\ box = "none"
  /\ writable = TRUE
  /\ pageState = Num(0)
  /\ pageNotify = FALSE
  /\ lastEvent = NoEvent
  /\ NoApp

InitRange ==
  /\ RangeOpened
  /\ signalAborted = FALSE
  /\ req = [i \in 1..MaxReq |-> IdleReq]
  /\ rangeLength = docSource.length
  /\ dataRanges = {}
  /\ progressiveDone = FALSE

NextRange ==
  \/ \E i \in 1..MaxReq : \E end \in {RangeChunkSize, rangeLength} :
       RequestDataRange(i, end)
  \/ \E i \in 1..MaxReq : \E ok \in BOOLEAN : \E b \in Bodies :
       FetchResponds(i, ok, b)
  \/ \E i \in 1..MaxReq : AwaitRejects(i)
  \/ \E i \in 1..MaxReq : ArrayBufferResolves(i)
  \/ \E i \in 1..MaxReq : TextResolves(i)
  \/ \E i \in 1..MaxReq : AbortRejects(i)
  \/ TransportAbort

SpecRange == InitRange /\ [][NextRange]_vars

InitOpen ==
  /\ server \in ProbeResponses
  /\ InitViewer
  /\ NoRange

NextOpen ==
  \/ LibLoads
  \/ LibFails
  \/ InterrupterResolves
  \/ ContinuationThrows
  \/ ProbeResponds
  \/ \E n \in 1..MaxPages : DocumentLoads(n)
  \/ DocumentFails
  \/ Dispose

SpecOpen == InitOpen /\ [][NextOpen]_vars

SmallFileResponse ==
  [ok |-> TRUE, contentLength |-> <<9,4,3,7,1,8,4>>, acceptRanges |-> ""]

\* a viewer whose document has loaded, whose first refresh (line 348) has
\* rendered page 1 and returned, and whose preview strip has been built
\* and opened; calls counts the render() calls made from here on
Init ==
  /\ server = SmallFileResponse
  /\ hasInterrupter = FALSE
  /\ seqRethrows \in BOOLEAN
  /\ ctor = "done"
  /\ Fetched("document")
  /\ destroyed = FALSE
  /\ disposed = FALSE
  /\ disposeLog = <<>>
  /\ getDocumentTask = "null"
  /\ docSource = UrlSource
  /\ loadTask = "resolved"
  /\ pdf = MaxPages
  /\ ready = TRUE
  /\ pageIndex = 0
  /\ calls = [i \in CallIds |-> NoCall]
  /\ ncalls = 0
  /\ task = [i \in CallIds |-> "none"]
  /\ fns = <<>>
  /\ running = 0
  /\ lastRenderingTask = 0
  /\ painted = FirstPage
  /\ reported = {}
  /\ showPreview = TRUE
  /\ previewLazyLoad = [exists |-> TRUE, observed |-> pdf]
  /\ previewPages = pdf
  /\ touched = {}
  /\ touchCalls = [k \in 1..MaxPages |-> "none"]
  /\ readonly = FALSE
  /\ box = "none"
  /\ writable = TRUE
  /\ pageState = Num(0)
  /\ pageNotify = FALSE
  /\ lastEvent = NoEvent
  /\ NoApp
  /\ NoRange

Next ==
  \/ Dispose
  \/ VisibilityChange
  \/ \E index \in 0..MaxPages : SetPageIndex(index)
  \/ \E pageNumber \in 0..(MaxPages + 1) : DirectRender(pageNumber)
  \/ \E k \in 1..MaxPages : \E isIntersecting \in BOOLEAN :
       Handler(k, isIntersecting)
  \/ \E i \in CallIds : ResumeReady(i)
  \/ \E i \in CallIds : \E context \in BOOLEAN : GetPageResolves(i, context)
  \/ \E i \in CallIds : GetPageRejects(i)
  \/ \E i \in CallIds : TaskCompletes(i)
  \/ \E i \in CallIds : TaskFails(i)
  \/ \E i \in CallIds : TaskCancelled(i)

Spec == Init /\ [][Next]_vars

\* the lane of a library whose add() settles as the function added settles
InitRethrows == Init /\ seqRethrows

SpecRethrows == InitRethrows /\ [][Next]_vars

\* the texts the page-number input can hold
InputValues ==
  {<<>>, <<1, Dot, 5>>, <<NonDigit>>} \cup {<<n>> : n \in 0..(MaxPages + 1)}

Keys == {"ArrowUp", "ArrowLeft", "ArrowDown", "ArrowRight", "Enter"}

TagNames == {"INPUT", "TEXTAREA", "SELECT", "DIV"}

\* the keydown events: every key on a plain element, the two directions on
\* every element
KeyEvents ==
  {e \in [key : Keys, tagName : TagNames] :
     e.tagName = "DIV" \/ e.key \in {"ArrowLeft", "ArrowRight"}}

\* a viewer, plain or of the collaborative app, readonly or not, either
\* still loading its document or ready with its preview strip built
InitNav ==
  /\ server = SmallFileResponse
  /\ hasInterrupter = FALSE
  /\ seqRethrows = TRUE
  /\ ctor = "done"
  /\ Fetched("document")
  /\ destroyed = FALSE
  /\ disposed = FALSE
  /\ disposeLog = <<>>
  /\ docSource = UrlSource
  /\ ready \in BOOLEAN
  /\ getDocumentTask = IF ready THEN "null" ELSE "whole"
  /\ loadTask = IF ready THEN "resolved" ELSE "pending"
  /\ pdf = IF ready THEN MaxPages ELSE 0
  /\ pageIndex = 0
  /\ calls = [i \in CallIds |-> NoCall]
  /\ ncalls = 0
  /\ task = [i \in CallIds |-> "none"]
  /\ fns = <<>>
  /\ running = 0
  /\ lastRenderingTask = 0
  /\ painted = IF ready THEN FirstPage ELSE NoPaint
  /\ reported = {}
  /\ showPreview = FALSE
  /\ previewLazyLoad = NoLoader
  /\ previewPages = pdf
  /\ touched = {}
  /\ touchCalls = [k \in 1..MaxPages |-> "none"]
  /\ readonly \in BOOLEAN
  /\ box \in {"none", "focused", "blurred"}
  /\ writable = (box = "none" \/ ~readonly)
  /\ pageState = Num(0)
  /\ pageNotify = FALSE
  /\ lastEvent = NoEvent
  /\ warned = ""
  /\ isAddApp = FALSE
  /\ scenes = IF box = "none" THEN NoScenes
              ELSE [dir |-> TRUE, names |-> {Num(2 * k) : k \in 1..MaxPages}]
  /\ lastIndex = IF box # "none" /\ ready THEN Num(0) ELSE NoIndex
  /\ pageEvents = IF box # "none" /\ ready
                    THEN <<[index |-> Num(0), length |-> MaxPages]>>
                    ELSE <<>>
  /\ scenePath = FirstScene(scenes)
  /\ syncing = <<>>
  /\ mounted = (box # "none")
  /\ sized = (box # "none" /\ ready)
  /\ camera = DocCamera
  /\ throttleSyncView = 0
  /\ timers = <<>>
  /\ viewState = DefaultView
  /\ disableCameraTransform = FALSE
  /\ viewNotify = FALSE
  /\ NoFrame
  /\ NoRange

NextNav ==
  \/ ClickPageBack
  \/ ClickPageNext
  \/ \E value \in InputValues : InputChange(value)
  \/ \E e \in KeyEvents : KeyDown(e.key, e.tagName)
  \/ \E index \in 0..(MaxPages - 1) : PreviewClick(index)
  \/ ClickSidebar
  \/ \E value \in BOOLEAN : SetReadonly(value)
  \/ \E isWritable \in BOOLEAN : WritableChange(isWritable)
  \/ \E focus \in BOOLEAN : BoxFocus(focus)
  \/ PageStateChanged
  \/ DocumentLoads(MaxPages)

SpecNav == InitNav /\ [][NextNav]_vars

\* the collaborative app inside setup(), right after createPDFViewer: the
\* document is loading, view$$ holds its default or what a peer, or this
\* peer in an earlier session, published
ViewRecords ==
  {DefaultView} \cup [uid : {Me, Peer}, rect : 1..MaxCamera]

InitView ==
  /\ server = SmallFileResponse
  /\ hasInterrupter = FALSE
  /\ seqRethrows = TRUE
  /\ ctor = "done"
  /\ Fetched("document")
  /\ destroyed = FALSE
  /\ disposed = FALSE
  /\ disposeLog = <<>>
  /\ docSource = UrlSource
  /\ ready = FALSE
  /\ getDocumentTask = "whole"
  /\ loadTask = "pending"
  /\ pdf = 0
  /\ pageIndex = 0
  /\ calls = [i \in CallIds |-> NoCall]
  /\ ncalls = 0
  /\ task = [i \in CallIds |-> "none"]
  /\ fns = <<>>
  /\ running = 0
  /\ lastRenderingTask = 0
  /\ painted = NoPaint
  /\ reported = {}
  /\ showPreview = FALSE
  /\ previewLazyLoad = NoLoader
  /\ previewPages = 0
  /\ touched = {}
  /\ touchCalls = [k \in 1..MaxPages |-> "none"]
  /\ writable \in BOOLEAN
  /\ readonly = ~writable
  /\ box = "focused"
  /\ pageState = Num(0)
  /\ pageNotify = FALSE
  /\ lastEvent = NoEvent
  /\ warned = ""
  /\ isAddApp = FALSE
  /\ scenes = [dir |-> TRUE, names |-> {Num(2 * k) : k \in 1..MaxPages}]
  /\ lastIndex = NoIndex
  /\ pageEvents = <<>>
  /\ scenePath = NoPath
  /\ syncing = <<>>
  /\ mounted = FALSE
  /\ sized = FALSE
  /\ camera \in 1..MaxCamera
  /\ throttleSyncView = 0
  /\ timers = <<>>
  /\ viewState \in ViewRecords
  /\ disableCameraTransform = FALSE
  /\ viewNotify = FALSE
  /\ NoFrame
  /\ NoRange

NextView ==
  \/ Mount
  \/ AppDocumentLoads(MaxPages)
  \/ OnRenderEnd
  \/ SizeUpdated
  \/ \E c \in 1..MaxCamera : CameraUpdatedByDevice(c)
  \/ SyncViewTimer
  \/ AnimationFrame
  \/ ViewStateChanged
  \/ \E rect \in 0..MaxCamera : RemoteViewWrite(rect)
  \/ \E isWritable \in BOOLEAN : WritableChange(isWritable)
  \/ AppDispose
  \/ \E i \in CallIds : RenderEndsDisposed(i)

SpecView == InitView /\ [][NextView]_vars

\* the browser runs the callback of a timer that is set, and the room
\* calls a state listener of a change that was made
SpecViewLive ==
  /\ InitView /\ [][NextView]_vars
  /\ WF_vars(SyncViewTimer)
  /\ WF_vars(ViewStateChanged)

\* the collaborative app with its document loading, at any scenes setup()
\* can find, or ready on page 1 with its scenes prepared
InitPage ==
  /\ server = SmallFileResponse
  /\ hasInterrupter = FALSE
  /\ seqRethrows = TRUE
  /\ ctor = "done"
  /\ Fetched("document")
  /\ destroyed = FALSE
  /\ disposed = FALSE
  /\ disposeLog = <<>>
  /\ docSource = UrlSource
  /\ ready \in BOOLEAN
  /\ getDocumentTask = IF ready THEN "null" ELSE "whole"
  /\ loadTask = IF ready THEN "resolved" ELSE "pending"
  /\ pdf = IF ready THEN MaxPages ELSE 0
  /\ pageIndex = 0
  /\ calls = [i \in CallIds |-> NoCall]
  /\ ncalls = 0
  /\ task = [i \in CallIds |-> "none"]
  /\ fns = <<>>
  /\ running = 0
  /\ lastRenderingTask = 0
  /\ painted = IF ready THEN FirstPage ELSE NoPaint
  /\ reported = {}
  /\ showPreview = FALSE
  /\ previewLazyLoad = NoLoader
  /\ previewPages = pdf
  /\ touched = {}
  /\ touchCalls = [k \in 1..MaxPages |-> "none"]
  /\ writable \in BOOLEAN
  /\ readonly = ~writable
  /\ box = "focused"
  /\ pageState = Num(0)
  /\ pageNotify = FALSE
  /\ lastEvent = NoEvent
  /\ warned = ""
  /\ isAddApp \in BOOLEAN
  /\ scenes \in IF ready
                  THEN {[dir |-> TRUE,
                         names |-> {Num(2 * k) : k \in 1..MaxPages}]}
                  ELSE {NoScenes, [dir |-> TRUE, names |-> {}],
                        [dir |-> TRUE,
                         names |-> {Num(2 * k) : k \in 1..MaxPages}]}
  /\ lastIndex = IF ready THEN Num(0) ELSE NoIndex
  /\ pageEvents = IF ready THEN <<[index |-> Num(0), length |-> MaxPages]>>
                            ELSE <<>>
  /\ scenePath = FirstScene(scenes)
  /\ syncing = <<>>
  /\ mounted = TRUE
  /\ sized = ready
  /\ camera = DocCamera
  /\ throttleSyncView = 0
  /\ timers = <<>>
  /\ viewState = DefaultView
  /\ disableCameraTransform = FALSE
  /\ viewNotify = FALSE
  /\ NoFrame
  /\ NoRange

NextPage ==
  \/ ClickPageBack
  \/ ClickPageNext
  \/ \E value \in InputValues : InputChange(value)
  \/ \E isWritable \in BOOLEAN : WritableChange(isWritable)
  \/ PageStateChanged
  \/ \E x \in PageIndexes(MaxPages) : RemotePageWrite(x)
  \/ DocumentLoads(MaxPages)
  \/ AddPageResolves

SpecPage == InitPage /\ [][NextPage]_vars

\* the collaborative app on a peer that is and stays writable
InitScene == InitPage /\ writable

NextScene ==
  \/ ClickPageBack
  \/ ClickPageNext
  \/ \E value \in InputValues : InputChange(value)
  \/ PageStateChanged
  \/ \E x \in PageIndexes(MaxPages) : RemotePageWrite(x)
  \/ DocumentLoads(MaxPages)
  \/ AddPageResolves

SpecScene == InitScene /\ [][NextScene]_vars

\* a viewer whose document is loading: renders can be asked for before the
\* document is there
InitReady ==
  /\ server = SmallFileResponse
  /\ hasInterrupter = FALSE
  /\ seqRethrows \in BOOLEAN
  /\ ctor = "done"
  /\ Fetched("document")
  /\ destroyed = FALSE
  /\ disposed = FALSE
  /\ disposeLog = <<>>
  /\ getDocumentTask = "whole"
  /\ docSource = UrlSource
  /\ loadTask = "pending"
  /\ pdf = 0
  /\ ready = FALSE
  /\ pageIndex = 0
  /\ calls = [i \in CallIds |-> NoCall]
  /\ ncalls = 0
  /\ task = [i \in CallIds |-> "none"]
  /\ fns = <<>>
  /\ running = 0
  /\ lastRenderingTask = 0
  /\ painted = NoPaint
  /\ reported = {}
  /\ showPreview = FALSE
  /\ previewLazyLoad = NoLoader
  /\ previewPages = 0
  /\ touched = {}
  /\ touchCalls = [k \in 1..MaxPages |-> "none"]
  /\ readonly = FALSE
  /\ box = "none"
  /\ writable = TRUE
  /\ pageState = Num(0)
  /\ pageNotify = FALSE
  /\ lastEvent = NoEvent
  /\ NoApp
  /\ NoRange

NextReady ==
  \/ DocumentLoads(MaxPages)
  \/ DocumentFails
  \/ Dispose
  \/ \E index \in 0..(MaxPages - 1) : SetPageIndex(index)
  \/ \E pageNumber \in 1..MaxPages : DirectRender(pageNumber)
  \/ TogglePreview("toggle")
  \/ MakePreviewStep
  \/ \E k \in 1..MaxPages : Handler(k, TRUE)
  \/ \E i \in CallIds : ResumeReady(i)
  \/ \E i \in CallIds : \E context \in BOOLEAN : GetPageResolves(i, context)
  \/ \E i \in CallIds : GetPageRejects(i)
  \/ \E i \in CallIds : TaskCompletes(i)
  \/ \E i \in CallIds : TaskFails(i)
  \/ \E i \in CallIds : TaskCancelled(i)

SpecReady == InitReady /\ [][NextReady]_vars

\* a step of render_ of some call: the engine answers what render_ awaits
LaneStep ==
  \/ \E i \in CallIds : ResumeReady(i)
  \/ \E i \in CallIds : \E context \in BOOLEAN : GetPageResolves(i, context)
  \/ \E i \in CallIds : GetPageRejects(i)
  \/ \E i \in CallIds : TaskCompletes(i)
  \/ \E i \in CallIds : TaskFails(i)
  \/ \E i \in CallIds : TaskCancelled(i)

\* the promise of the loading task settles
LoadSettles == DocumentLoads(MaxPages) \/ DocumentFails

\* SpecReady with an engine that answers: a promise of the engine that
\* render_ awaits settles, and so does the promise of the loading task
SpecSettle ==
  /\ InitReady
  /\ [][NextReady]_vars
  /\ WF_vars(LaneStep)
  /\ WF_vars(LoadSettles)

(***************************************************************************)
(* Properties.                                                             *)
(***************************************************************************)
\* a range request that failed with the error of a response
FailedByResponse(r) == r.st = "failed" /\ r.err.message \in Bodies

\* C1 (as stated): a range request whose every response is non-success
\* makes exactly 3 fetch attempts and then fails with the error of the
\* last response.
C1_FailsAfterThreeAttempts ==
  \A i \in 1..MaxReq :
    FailedByResponse(req[i]) =>
      /\ req[i].attempts = 3
      /\ req[i].err = HttpError(req[i].body)

\* C1 (amended): a range request whose every response is non-success makes
\* exactly 4 fetch attempts (1 initial + 3 retries) and then fails with the
\* error of the last response.
C1_FailsAfterFourAttempts ==
  \A i \in 1..MaxReq :
    FailedByResponse(req[i]) =>
      /\ req[i].attempts = 4
      /\ req[i].fails = 4
      /\ req[i].err = HttpError(req[i].body)

C1_Witness ==
  \E i \in 1..MaxReq : FailedByResponse(req[i]) /\ req[i].fails = req[i].attempts

\* C2: a range request answered non-success twice and then success returns
\* the bytes of the successful response after exactly 3 fetch attempts,
\* makes no further attempt and does not fail.
C2_ThirdAttemptSucceeds ==
  \A i \in 1..MaxReq :
    (req[i].fails = 2 /\ req[i].st \in {"arrayBuffer", "done"}) =>
      /\ req[i].attempts = 3
      /\ req[i].err = NoError
      /\ req[i].st = "done" => req[i].result = req[i].body

C2_Witness ==
  \E i \in 1..MaxReq : req[i].fails = 2 /\ req[i].st = "done" /\ i \in dataRanges

\* C5: once transport.abort() has been called no fetch attempt is made any
\* more, and every range request that was in flight or is issued afterwards
\* fails at its next step with an error whose text contains
\* 'RenderingCancelledException'.
C5_AbortFailsRequests ==
  [][signalAborted =>
       \A i \in 1..MaxReq :
         /\ req'[i].attempts = req[i].attempts
         /\ req'[i] # req[i] =>
              /\ req'[i].st = "failed"
              /\ Includes(ReasonText(req'[i].err), "RenderingCancelledException")]_vars

C5_Witness ==
  /\ signalAborted
  /\ \E i, j \in 1..MaxReq :
       /\ req[i].st = "failed" /\ req[i].err = AbortReason /\ req[i].attempts > 0
       /\ req[j].st = "failed" /\ req[j].err = AbortReason /\ req[j].attempts = 0

\* C3: once the probe has returned on a viewer that is not destroyed, the
\* document is opened by whole-file fetch exactly when length < 10485760 or
\* supportsRange is false, and otherwise by a range source of that length
\* with chunk size 16384.
C3_PathFollowsProbe ==
  (ctor = "done" /\ ~destroyed) =>
    LET p == Prepare(server)
    IN IF p.length < 10485760 \/ ~p.supportsRange
         THEN /\ docSource.kind = "url"
              /\ getDocumentTask \in {"whole", "null"}
         ELSE /\ docSource.kind = "range"
              /\ docSource.length = p.length
              /\ docSource.rangeChunkSize = 16384
              /\ getDocumentTask \in {"range", "null"}

C3_Witness ==
  /\ ctor = "done" /\ ~destroyed
  /\ Prepare(server) = [length |-> 52428800, supportsRange |-> TRUE]
  /\ getDocumentTask = "range"
  /\ docSource = [kind |-> "range", length |-> 52428800, rangeChunkSize |-> 16384]

\* C4: for a non-success response to the metadata request the probe
\* returns length 0 and supportsRange false, the continuation does not
\* throw, and the viewer takes the whole-file path.
C4_FailedProbeIsWholeFile ==
  ~server.ok =>
    /\ Prepare(server) = [length |-> 0, supportsRange |-> FALSE]
    /\ (ctor = "done" /\ ~destroyed) =>
         docSource.kind = "url" /\ getDocumentTask \in {"whole", "null"}

C4_Witness ==
  /\ ~server.ok
  /\ server.contentLength = <<5,2,4,2,8,8,0,0>>
  /\ server.acceptRanges = "bytes"
  /\ ctor = "done"
  /\ getDocumentTask = "whole"

\* C6: render calls execute one at a time in submission order on one lane
\* shared by all surfaces: a call's render_ does not begin before every
\* call submitted earlier has settled, and at most one engine render task
\* is unsettled.
C6_OneAtATime ==
  /\ Cardinality({i \in CallIds : task[i] = "running"}) <= 1
  /\ Cardinality({i \in CallIds : calls[i].st \in Executing}) <= 1
  /\ \A i, j \in CallIds :
       (i < j /\ calls[j].st \in Executing \cup Settled) =>
          calls[i].st \in Settled \cup {"dropped"}

C6_Witness ==
  \E i, j \in CallIds :
    /\ i < j
    /\ calls[i].st = "task" /\ task[i] = "running"
    /\ calls[j].st = "queued"
    /\ calls[i].surface # calls[j].surface

\* C7 (as stated): when a newer render is submitted against the primary
\* surface while an older render against it is in flight, the older
\* render's engine task does not complete: it ends cancelled.
C7_OlderTaskNeverCompletes ==
  [][\A i, j \in CallIds :
       ( /\ i < j
         /\ task[i] = "running" /\ calls[i].surface = "primary"
         /\ calls[j].st = "queued" /\ calls[j].surface = "primary" )
       => task'[i] # "done"]_vars

\* C9: no reason whose text contains 'RenderingCancelledException' is ever
\* passed to options.onRenderError.
C9_CancellationNotReported ==
  \A e \in reported :
    ~Includes(ReasonText(e.reason), "RenderingCancelledException")

C9_Witness ==
  \E i \in CallIds :
    /\ calls[i].origin = "refresh"
    /\ calls[i].promise = "rejected"
    /\ calls[i].reason = RenderingCancelled
    /\ \A e \in reported : e.call # i

\* C10 (as stated): every render failure that is not a cancellation,
\* of a refresh or of a preview touch, is passed to options.onRenderError.
C10_EveryFailureReported ==
  \A i \in CallIds :
    ( /\ calls[i].st = "threw"
      /\ calls[i].origin \in {"refresh", "touch"}
      /\ ~Includes(ReasonText(calls[i].reason), "RenderingCancelledException") )
    => \E e \in reported : e.call = i /\ e.reason = calls[i].reason

\* position of a step in the order the claim gives
StepRank(step) ==
  CASE step = "destroyed = true"         -> 1
    [] step = "previewLazyLoad.destroy"  -> 2
    [] step = "getDocumentTask.destroy"  -> 3
    [] step = "lastRenderingTask.cancel" -> 4

Did(log, step) == \E k \in 1..Len(log) : log[k] = step

\* C11: the disposer sets destroyed, then disconnects the preview observer
\* if there is one, then destroys the document-load task if there is one,
\* then cancels the render task if there is one, in this order; when it
\* returns previewLazyLoad, getDocumentTask and lastRenderingTask are null.
C11_DisposerOrder ==
  [][(~disposed /\ disposed') =>
       /\ destroyed'
       /\ disposeLog' # <<>>
       /\ disposeLog'[1] = "destroyed = true"
       /\ \A a, b \in 1..Len(disposeLog') :
            a < b => StepRank(disposeLog'[a]) < StepRank(disposeLog'[b])
       /\ Did(disposeLog', "previewLazyLoad.destroy") <=> previewLazyLoad.exists
       /\ Did(disposeLog', "getDocumentTask.destroy") <=> getDocumentTask # "null"
       /\ Did(disposeLog', "lastRenderingTask.cancel") <=> lastRenderingTask # 0
       /\ \A i \in CallIds :
            (lastRenderingTask = i /\ task[i] = "running") => task'[i] = "cancelled"
       /\ previewLazyLoad' = NoLoader
       /\ getDocumentTask' = "null"
       /\ lastRenderingTask' = 0]_vars

C11_Witness ==
  /\ disposed
  /\ disposeLog = <<"destroyed = true", "previewLazyLoad.destroy",
                    "lastRenderingTask.cancel">>
  /\ \E i \in CallIds : task[i] = "cancelled" /\ calls[i].st = "task"
  /\ lastRenderingTask = 0

\* reasons that exist only because something was cancelled
CancellationReasons == {LoadAborted, RenderingCancelled, AbortReason}

\* C12 (as stated): options.onRenderError is never called with a reason
\* that a cancellation made by disposal produced.
C12_DisposalNeverReported ==
  \A e \in reported : e.reason \notin CancellationReasons

\* C13 (as stated): a viewer disposed after its document was decoded has
\* released the document to the engine.
C13_DocumentDestroyedOnDispose ==
  (disposed /\ pdf # 0) => DocumentReleased

\* C14: when the library fails to load or the engine fails to produce a
\* document, options.onRenderError is called with the reason while the
\* viewer is not yet destroyed, the viewer is destroyed when onError
\* returns, and ready never fires.
C14_FailureReportedThenDisposed ==
  [][(ctor' = "failed" \/ loadTask' = "rejected") =>
       /\ destroyed' /\ disposed'
       /\ ~ready'
       /\ \E e \in reported' :
            e.call = 0 /\ e.reason \in {LibError, LoadError, LoadAborted}
       /\ (~destroyed /\ ctor # "failed" /\ loadTask # "rejected") =>
            \E e \in reported' \ reported :
              e.call = 0 /\ ~e.destroyed /\ e.reason \in {LibError, LoadError}]_vars

C14_Witness ==
  /\ loadTask = "rejected"
  /\ Report(0, LoadError, FALSE) \in reported
  /\ destroyed
  /\ ~ready
  /\ Did(disposeLog, "getDocumentTask.destroy")

\* C15 (as stated): when the probe request rejects, the failure is passed
\* to options.onRenderError.
C15_ProbeFailureReported ==
  ctor = "probe threw" => \E e \in reported : e.call = 0

TouchCalls == {i \in CallIds : calls[i].origin = "touch"}

UserStep ==
  \/ ClickPageBack
  \/ ClickPageNext
  \/ \E value \in InputValues : InputChange(value)
  \/ \E e \in KeyEvents : KeyDown(e.key, e.tagName)
  \/ \E index \in 0..(MaxPages - 1) : PreviewClick(index)

\* the page index the event e asks for on a viewer showing page index at
Requested(e, at) ==
  CASE e.type = "back"    -> Num(2 * (at - 1))
    [] e.type = "next"    -> Num(2 * (at + 1))
    [] e.type = "input"   -> IF e.value = <<>> THEN NaNNum
                             ELSE Minus1(ToNumber(e.value))
    [] e.type = "keydown" -> IF e.key \in {"ArrowUp", "ArrowLeft"}
                               THEN Num(2 * (at - 1))
                             ELSE IF e.key \in {"ArrowDown", "ArrowRight"}
                               THEN Num(2 * (at + 1))
                               ELSE NaNNum
    [] e.type = "preview" -> ToNumber(e.value)
    [] OTHER              -> NaNNum

\* x is not one of 0 .. pageCount - 1; with pageCount = 0 nothing is
OutOfRange(x, pageCount) ==
  x.nan \/ x.halves < 0 \/ x.halves >= 2 * pageCount

\* C17: a request of the user, of any origin, for an index outside
\* [0, pageCount), pageCount being 0 before the document is ready, changes
\* neither pageIndex nor the shared page index, submits no render and
\* reports nothing to options.onRenderError.
C17_OutOfRangeDropped ==
  [][(UserStep /\ OutOfRange(Requested(lastEvent', pageIndex), pdf)) =>
       /\ pageIndex' = pageIndex
       /\ pageState' = pageState
       /\ calls' = calls /\ ncalls' = ncalls
       /\ reported' = reported]_vars

C17_Witness ==
  /\ lastEvent = [NoEvent EXCEPT !.type = "input", !.value = <<0>>]
  /\ ~readonly
  /\ box = "none"
  /\ ready /\ pdf = MaxPages
  /\ pageIndex = 0
  /\ ncalls = 0
  /\ reported = {}

\* C18 (as stated): on a ready viewer pageIndex is one of
\* 0 .. pageCount - 1 in every state.
C18_PageIndexInRange ==
  ready => pageIndex \in 0..(pdf - 1)

\* C19 (as stated): while the viewer is readonly no request of the user
\* changes pageIndex.
C19_ReadonlyKeepsPage ==
  [][(readonly /\ UserStep) => pageIndex' = pageIndex]_vars

\* C20: a keydown whose target is an INPUT, TEXTAREA or SELECT element, or
\* that arrives in the collaborative viewer while its box has no input
\* focus, changes neither pageIndex nor the shared page index and submits
\* no render.
C20_KeydownDropped ==
  [][\A e \in KeyEvents :
       ( /\ KeyDown(e.key, e.tagName)
         /\ \/ e.tagName \in {"INPUT", "TEXTAREA", "SELECT"}
            \/ box = "blurred" )
       => /\ pageIndex' = pageIndex
          /\ pageState' = pageState
          /\ pageNotify' = pageNotify
          /\ ncalls' = ncalls]_vars

C20_Witness ==
  /\ lastEvent = [NoEvent EXCEPT !.type = "keydown", !.key = "ArrowRight",
                                  !.tagName = "TEXTAREA"]
  /\ ~readonly /\ writable
  /\ box = "focused"
  /\ ready /\ pdf = MaxPages
  /\ pageIndex = 0
  /\ pageState = Num(0) /\ ~pageNotify
  /\ ncalls = 0

\* C21: in the collaborative app a request of the user made while the peer
\* may not write is dropped: the shared page index is neither written nor
\* notified, pageIndex stays, no scene is added, no render is submitted and
\* nothing is reported to options.onRenderError.
C21_DeniedWriteDropped ==
  [][(box # "none" /\ ~writable /\ UserStep) =>
       /\ pageState' = pageState
       /\ pageNotify' = pageNotify
       /\ pageIndex' = pageIndex
       /\ scenes' = scenes
       /\ ncalls' = ncalls
       /\ reported' = reported]_vars

C21_Witness ==
  /\ box # "none"
  /\ ~writable /\ ~readonly
  /\ lastEvent = [NoEvent EXCEPT !.type = "next"]
  /\ warned = "no permission"
  /\ ready /\ pdf = MaxPages
  /\ pageState = Num(0) /\ ~pageNotify
  /\ pageIndex = 0
  /\ reported = {}

\* C22 (as stated): this peer writes the shared viewport or the shared page
\* index only in a state in which it may write; the write of a viewport
\* timer that fires after the permission was revoked does not happen.
C22_WritesNeedPermission ==
  [][(SyncViewTimer \/ (UserStep /\ pageState' # pageState)) =>
       writable]_vars

\* C23: at most one publish of the viewport is scheduled at any time, and a
\* camera change of the device that arrives while one is scheduled
\* schedules no other and writes nothing: the changes of one window end
\* in one write.
C23_OnePublishPerWindow ==
  [][/\ Len(timers') <= 1
     /\ \A c \in 1..MaxCamera :
          (CameraUpdatedByDevice(c) /\ timers # <<>>) =>
            (timers' = timers /\ viewState' = viewState)]_vars

C23_Witness ==
  /\ writable /\ sized
  /\ timers = <<[id |-> 1, rect |-> 2]>>
  /\ lastEvent = [NoEvent EXCEPT !.type = "camera", !.value = <<1>>]
  /\ camera = 1
  /\ viewState = DefaultView

\* C24 (as stated): the rectangle a viewport timer writes is the one of the
\* latest camera change of the device.
C24_PublishesLatestCamera ==
  [][(SyncViewTimer /\ lastEvent.type = "camera") =>
       viewState'.rect = lastEvent.value[1]]_vars

\* C25: the state listener of the shared viewport moves the camera to the
\* record's rectangle if the record is of another peer and its rectangle
\* is not empty, and leaves the camera alone otherwise.
C25_OwnRecordNotApplied ==
  [][ViewStateChanged =>
       camera' = IF viewState.uid # Me /\ viewState.rect > 0
                   THEN viewState.rect
                   ELSE camera]_vars

C25_Witness ==
  /\ ready /\ mounted /\ ~disposed
  /\ ~viewNotify
  /\ viewState = [uid |-> Peer, rect |-> 2]
  /\ lastEvent = [NoEvent EXCEPT !.type = "camera", !.value = <<1>>]
  /\ camera = 2
  /\ ~sized

\* C26 (as stated): the forced re-apply at the end of setup and after
\* every resize moves the camera to the rectangle of the shared viewport,
\* whatever the record is.
C26_ForcedAppliesAnything ==
  [][(Mount \/ SizeUpdated) => camera' = viewState.rect]_vars

\* C26 (amended): the forced re-apply at the end of setup, and after a
\* resize once the page has a size, moves the camera to the rectangle of
\* the shared viewport whoever owns the record, if the rectangle is not
\* empty; an empty record is not applied.
C26_ForcedAppliesNonEmpty ==
  [][(Mount \/ (SizeUpdated /\ sized)) =>
       /\ viewState.rect > 0 => camera' = viewState.rect
       /\ (Mount /\ viewState.rect = 0) => camera' = camera
       /\ (SizeUpdated /\ viewState.rect = 0) => camera' = DocCamera]_vars

C26_Witness ==
  /\ mounted /\ sized /\ ~disposed
  /\ lastEvent = [NoEvent EXCEPT !.type = "camera", !.value = <<1>>]
  /\ viewState = [uid |-> Me, rect |-> 2]
  /\ camera = 2

\* C27: once the viewer is ready, syncPage dispatches pageStateChange with
\* the shared index when that index differs from the one it dispatched
\* last, and dispatches nothing when it is the same; no two events in a
\* row carry the same index.
C27_PageEventsDeduplicated ==
  /\ [](Len(pageEvents) = 2 => pageEvents[1].index # pageEvents[2].index)
  /\ [][(PageStateChanged /\ ready) =>
          pageEvents' =
            IF pageState = pageEvents[Len(pageEvents)].index
              THEN pageEvents
              ELSE LastTwo(Append(pageEvents,
                                  [index |-> pageState, length |-> pdf]))]_vars
  /\ [][(~ready /\ ready') =>
          pageEvents' = <<[index |-> pageState, length |-> pdf']>>]_vars

\* the listener saw twice the index of page 2 and dispatched one event
C27_Witness ==
  /\ ready /\ ~disposed
  /\ ~pageNotify
  /\ ncalls = 2
  /\ \A i \in 1..2 : calls[i].origin = "refresh" /\ calls[i].pageNumber = 2
  /\ pageState = Num(2)
  /\ pageIndex = 1
  /\ lastIndex = Num(2)
  /\ pageEvents = <<[index |-> Num(0), length |-> MaxPages],
                    [index |-> Num(2), length |-> MaxPages]>>

\* C30 (as stated): in the collaborative app, once the listeners of the
\* shared page index have seen its last change, pageIndex is the shared
\* index.
C30_PageIndexFollowsPageState ==
  (box # "none" /\ ~disposed /\ ~pageNotify) =>
     Num(2 * pageIndex) = pageState

\* C28: ready is resolved at most once, by the one resolution of the
\* loading task, and never taken back; until then no call of render() has
\* an engine render task, on any canvas, and every call submitted stays
\* pending.
C28_NoTaskBeforeReady ==
  /\ [](~ready => \A i \in CallIds :
                    /\ task[i] = "none"
                    /\ calls[i].st \in {"none", "queued", "ready", "dropped"}
                    /\ calls[i].st # "none" => calls[i].promise = "pending")
  /\ [](~ready => lastRenderingTask = 0)
  /\ [][ready => ready']_vars
  /\ [][(~ready /\ ready') =>
          (loadTask # "resolved" /\ loadTask' = "resolved")]_vars

\* a render asked for before ready got its task after ready
C28_Witness ==
  /\ ready
  /\ ncalls = 2
  /\ calls[1].origin = "direct"
  /\ calls[1].st = "task"
  /\ task[1] = "running"
  /\ calls[2].origin = "refresh"
  /\ calls[2].st = "queued"

CanvasOf(origin) ==
  CASE origin = "refresh" -> "primary"
    [] origin = "touch"   -> "preview"
    [] OTHER              -> "own"

\* the render() calls made so far against canvas s, and the latest of some
CallsOn(s) ==
  {i \in CallIds : calls[i].st # "none" /\ CanvasOf(calls[i].origin) = s}
Latest(ids) == CHOOSE i \in ids : \A j \in ids : j <= i

C32_HandleOnlyWhileUnsettled ==
  lastRenderingTask # 0 => task[lastRenderingTask] = "running"

\* C33 (as stated): every thumbnail of the preview strip that comes into
\* the strip's viewport is touched, those that makePreview appends after
\* the loader was constructed included; the loader calls touch only for
\* the canvases it observes, so it observes every thumbnail of the strip.
C33_EveryThumbnailObserved ==
  previewLazyLoad.exists =>
    \A k \in 1..previewPages : k <= previewLazyLoad.observed

\* C34: at most one recompute of the transform is scheduled at any time;
\* a change of the camera that arrives while one is scheduled schedules no
\* other; every change of the camera before disposal leaves one scheduled;
\* the frame makes the transform from the camera as it is when the frame
\* fires; so with a page drawn and no frame scheduled the transform is the
\* one of the camera.
C34_OneRecomputePerFrame ==
  /\ [](Len(frames) <= 1)
  /\ []((throttleSyncPDF > 0) <=> (frames # <<>>))
  /\ []((mounted /\ sized /\ ~disposed /\ frames = <<>>) =>
          transform = camera)
  /\ [][camera' # camera =>
          /\ frames' # <<>>
          /\ frames # <<>> => frames' = frames
          /\ transform' = transform]_vars
  /\ [][AnimationFrame =>
          /\ frames' = <<>>
          /\ sized => transform' = camera
          /\ ~sized => transform' = transform]_vars

\* the device moved the camera to rectangle 2 and back to rectangle 1
\* within one frame: one frame is scheduled
C34_Witness ==
  /\ mounted /\ sized /\ ~disposed
  /\ timers = <<[id |-> 1, rect |-> 2]>>
  /\ lastEvent = [NoEvent EXCEPT !.type = "camera", !.value = <<1>>]
  /\ camera = 1
  /\ frames = <<[id |-> 1]>>
  /\ transform = 1

\* C35 (as stated): once the viewer is disposed no engine render task is
\* started by a render call that was suspended when the viewer was
\* disposed, and lastRenderingTask does not come to name such a call.  A
\* refresh submits no render on a destroyed viewer (line 416), so a render
\* of refresh that goes on after disposal is one that was suspended.
C35_NoTaskAfterDispose ==
  [][disposed =>
       \A i \in CallIds :
         calls[i].origin = "refresh" =>
           /\ task'[i] = "running" => task[i] = "running"
           /\ lastRenderingTask' = i => lastRenderingTask = i]_vars

\* C36 (as stated): the promise of every render() call settles in the end,
\* also when the document fails to load or the viewer is disposed before
\* ready is resolved.
C36_RenderPromisesSettle ==
  \A i \in CallIds :
    (calls[i].promise = "pending") ~> (calls[i].promise # "pending")

\* the page changes have quiesced: the listeners of the shared page index
\* have seen its last change and no syncPage is suspended
Quiesced ==
  /\ ready /\ ~disposed
  /\ scenes.dir
  /\ ~pageNotify
  /\ syncing = <<>>

\* C37 (as stated): on a writable peer, once the page changes have
\* quiesced, the whiteboard shows the scene named after the shared page
\* index; and a syncPage that was suspended at addPage never switches the
\* whiteboard to a scene other than the one of the index applied last.
C37_ScenePathFollowsIndex ==
  /\ [](Quiesced => scenePath = SceneName(pageState))
  /\ [][AddPageResolves => scenePath' = SceneName(lastIndex)]_vars

\* x is a whole number of [0, pageCount)
IsPageIndex(x, pageCount) == IsSafeInteger(x) /\ InBounds(x, pageCount)

\* C38 (as stated): no navigation request of the user, a page-number
\* input that is not a whole number included, writes to the shared
\* PageState an index that is not an integer of [0, pageCount) or adds a
\* scene for such an index.
C38_SharedIndexIsPageIndex ==
  [][UserStep =>
       /\ pageState' # pageState => IsPageIndex(pageState', pdf)
       /\ \A name \in scenes'.names \ scenes.names :
            \E x \in PageIndexes(pdf) :
              IsPageIndex(x, pdf) /\ name = SceneName(x)]_vars

\* C39 (as stated): once the collaborative app is disposed, no timer of
\* syncView publishes to the shared ViewportState, this peer writes nothing
\* to it, and no animation frame of syncPDFView recomputes the transform
\* of the canvas.
C39_NothingAfterDispose ==
  [][disposed => /\ ~SyncViewTimer
                 /\ viewState'.uid = Me => viewState' = viewState
                 /\ ~AnimationFrame]_vars

\* the device of this writable peer moved the camera to rectangle c, and
\* nothing has moved it since
Moved(c) ==
  /\ mounted /\ ~disposed
  /\ writable /\ sized
  /\ lastEvent = [NoEvent EXCEPT !.type = "camera", !.value = <<c>>]
  /\ camera = c

\* C40 (as stated): when the camera changes of a writable peer stop with a
\* viewport timer pending, the shared ViewportState comes to hold the
\* rectangle of the final camera, unless the camera moves again, the peer
\* loses its permission or the app is disposed.
C40_FinalCameraPublished ==
  \A c \in 1..MaxCamera :
    (Moved(c) /\ timers # <<>>)
      ~> (viewState = [uid |-> Me, rect |-> c] \/ ~Moved(c))

====
